---- MODULE Spec2Model ----
(***************************************************************************)
(* ticket-canary: the resilient extraction cascade of                      *)
(* call_openai_simplified and the polling cycle that calls it.             *)
(*                                                                         *)
(* Text is modelled character by character: a Python str is a sequence of  *)
(* one-character strings, so that strip, startswith, splitlines, the       *)
(* regular expressions and json.loads are computed, not assumed.           *)
(* A JSON value is a tagged record [t, v].                                 *)
(***************************************************************************)
EXTENDS Integers, Sequences, FiniteSets, TLC

VARIABLES
    pc,         \* control position inside main / process_issue / call_openai_simplified
    dbg,        \* _dbg_enabled(): OPENAI_DEBUG is on
    model_gpt5, \* OPENAI_MODEL starts with "gpt-5"
    is_gpt5,    \* the local is_gpt5 of call_openai_simplified: [bound, val]
    reqlog,     \* generation requests issued by the current call, in order
    resp,       \* the response to the last generation request
    call,       \* how the current call ended: [st, val, exc, site]
    body,       \* the local body of the except requests.HTTPError handler
    pool,       \* the outcomes the generation service may answer with
    MODE,       \* the MODE setting
    style,      \* TEAMS_MESSAGE_STYLE, lowered and stripped
    cycle,      \* number of the current timer run of main
    blob,       \* processed_ids.json in blob storage: a set of ids
    issues,     \* what search_tickets returned in this run
    new_tickets, \* the fetched tickets whose id is not among the processed ids
    todo,       \* the part of new_tickets the for loop has not reached yet
    passed,     \* ids passed to process_issue in this run, in order
    issue,      \* the ticket process_issue is working on
    posts,      \* Teams webhook posts made for that ticket: [kind, status]
    comments,   \* add_comment calls made for that ticket: [id, ok]
    ending,     \* how the run ended: "none", "saved", "not_saved", "bad_mode", "exception"
    raw,        \* the raw record handed to Ticket.model_validate, as it is now
    given,      \* that record as it was when first handed over
    results,    \* what each call of Ticket.model_validate on it gave: outcome, Ticket, normalized relations
    earlier,    \* ids passed to process_issue in the earlier timer runs
    effects,    \* what process_issue has done for the current ticket, in order
    stamp,      \* the argument s of parse_dt_loose
    instant,    \* what parse_dt_loose returned for it: [st, some, val]
    last_seen,  \* test/main.py: the local last_seen of main_loop
    watermark,  \* test/main.py: STATE["last_seen_updated_at"], the persisted watermark
    persisted,  \* the values persist_watermark was called with, in order
    tickets,    \* the part of the sorted batch the for loop of main_loop has not reached
    round,      \* number of the current polling round of main_loop
    response,   \* what the search/issues endpoint answers to search_tickets
    searched    \* how search_tickets ended: [st, tickets]

\* ------------------------------------------------------------ characters

\* the three non-ASCII list markers of the bullet pattern, as named characters
BULLET == "bullet"
ENDASH == "endash"
EMDASH == "emdash"
Q == "\""
NL == "\n"
\* what str.strip() removes and what \s matches, within the model's alphabet
WS == {" ", "\t", "\n"}
Digits == {"0", "1", "2", "3", "4", "5", "6", "7", "8", "9"}
BulletChars == {"-", "*", BULLET, ENDASH, EMDASH}

\* 'resumo_problema'
K_resumo_problema ==
    <<"r", "e", "s", "u", "m", "o", "_", "p", "r", "o", "b", "l", "e", "m", "a">>

\* 'sugestao_solucao'
K_sugestao_solucao ==
    <<"s", "u", "g", "e", "s", "t", "a", "o", "_", "s", "o", "l", "u", "c", "a", "o">>

\* 'sugestao_solucao_lista'
K_sugestao_solucao_lista ==
    <<"s", "u", "g", "e", "s", "t", "a", "o", "_", "s", "o", "l", "u", "c", "a", "o", "_",
      "l", "i", "s", "t", "a">>

\* 'debug_meta'
K_debug_meta ==
    <<"d", "e", "b", "u", "g", "_", "m", "e", "t", "a">>

\* 'debug_response_excerpt'
K_debug_response_excerpt ==
    <<"d", "e", "b", "u", "g", "_", "r", "e", "s", "p", "o", "n", "s", "e", "_", "e", "x",
      "c", "e", "r", "p", "t">>

\* 'Error:'
ErrPrefix ==
    <<"E", "r", "r", "o", "r", ":">>

\* 'Error: Could not parse AI JSON.'
ErrParseJSON ==
    <<"E", "r", "r", "o", "r", ":", " ", "C", "o", "u", "l", "d", " ", "n", "o", "t", " ",
      "p", "a", "r", "s", "e", " ", "A", "I", " ", "J", "S", "O", "N", ".">>

\* 'Error: No AI content.'
ErrNoContent ==
    <<"E", "r", "r", "o", "r", ":", " ", "N", "o", " ", "A", "I", " ", "c", "o", "n", "t",
      "e", "n", "t", ".">>

\* 'Error: Could not process AI response.'
ErrProcess ==
    <<"E", "r", "r", "o", "r", ":", " ", "C", "o", "u", "l", "d", " ", "n", "o", "t", " ",
      "p", "r", "o", "c", "e", "s", "s", " ", "A", "I", " ", "r", "e", "s", "p", "o", "n",
      "s", "e", ".">>

\* 'N/A'
NA ==
    <<"N", "/", "A">>

\* 'None'
PyNone ==
    <<"N", "o", "n", "e">>

\* '{}'
EmptyObjectText ==
    <<"{", "}">>

\* 'max_completion_tokens'
TokenMarker ==
    <<"m", "a", "x", "_", "c", "o", "m", "p", "l", "e", "t", "i", "o", "n", "_", "t", "o",
      "k", "e", "n", "s">>

\* ------------------------------------------------------------ str methods

At(s, i) == IF i >= 1 /\ i <= Len(s) THEN s[i] ELSE "EOF"

RECURSIVE LStrip(_)
LStrip(s) == IF s # <<>> /\ Head(s) \in WS THEN LStrip(Tail(s)) ELSE s

RECURSIVE RStrip(_)
RStrip(s) ==
    IF s # <<>> /\ s[Len(s)] \in WS THEN RStrip(SubSeq(s, 1, Len(s) - 1)) ELSE s

\* str.strip()
Strip(s) == RStrip(LStrip(s))

\* str.startswith(p)
StartsWith(s, p) == Len(s) >= Len(p) /\ SubSeq(s, 1, Len(p)) = p

\* the least element of a non-empty set of integers
Least(S) == CHOOSE i \in S : \A j \in S : i <= j

\* smallest i >= from at which p occurs in s, 0 when there is none
Find(s, p, from) ==
    LET hits == {i \in from..(Len(s) - Len(p) + 1) : SubSeq(s, i, i + Len(p) - 1) = p}
    IN  IF hits = {} THEN 0 ELSE Least(hits)

\* p in s
Contains(s, p) == Find(s, p, 1) # 0

\* str.splitlines(): the pieces between line breaks, and a last piece only
\* when it is not empty
SplitLines(s) ==
    LET brk == {i \in 1..Len(s) : s[i] = NL}
        ends == brk \cup (IF s # <<>> /\ s[Len(s)] # NL THEN {Len(s) + 1} ELSE {})
        end(k) == CHOOSE e \in ends : Cardinality({x \in ends : x < e}) = k - 1
        start(k) == IF k = 1 THEN 1 ELSE end(k - 1) + 1
    IN  [k \in 1..Cardinality(ends) |-> SubSeq(s, start(k), end(k) - 1)]

RECURSIVE SkipWS(_, _)
SkipWS(s, i) == IF i <= Len(s) /\ s[i] \in WS THEN SkipWS(s, i + 1) ELSE i

RECURSIVE SkipDigits(_, _)
SkipDigits(s, i) == IF i <= Len(s) /\ s[i] \in Digits THEN SkipDigits(s, i + 1) ELSE i

InSeq(x, xs) == \E i \in 1..Len(xs) : xs[i] = x

\* ------------------------------------------------------------ JSON values

JNone == [t |-> "none", v |-> <<>>]
JStr(s) == [t |-> "str", v |-> s]
JList(xs) == [t |-> "list", v |-> xs]
JDict(m) == [t |-> "dict", v |-> m]
EmptyMap == [k \in {} |-> JNone]

IsDict(j) == j.t = "dict"
Keys(j) == DOMAIN j.v

\* d[k] = val on a dict
Put(m, k, val) == [x \in (DOMAIN m) \cup {k} |-> IF x = k THEN val ELSE m[x]]

\* dict.get(k, dflt)
Get(j, k, dflt) == IF k \in DOMAIN j.v THEN j.v[k] ELSE dflt

\* dict.setdefault(k, val)
SetDefault(j, k, val) == IF k \in DOMAIN j.v THEN j ELSE JDict(Put(j.v, k, val))

\* bool(x)
Truthy(j) ==
    CASE j.t = "none" -> FALSE
      [] j.t = "dict" -> DOMAIN j.v # {}
      [] j.t = "meta" -> TRUE
      [] OTHER -> j.v # <<>>

\* str(x): a str is itself and None is "None"; the repr of a list or a dict is
\* kept to its brackets, its emptiness and an ellipsis for its elements
PyStr(j) ==
    CASE j.t = "str" -> j.v
      [] j.t = "none" -> PyNone
      [] j.t = "list" -> <<"[">> \o (IF j.v = <<>> THEN <<>> ELSE <<"...">>) \o <<"]">>
      [] OTHER -> <<"{">> \o (IF DOMAIN j.v = {} THEN <<>> ELSE <<"...">>) \o <<"}">>

\* ------------------------------------------------------------ json.loads
\* The JSON subset of the model: objects, arrays, strings without escapes,
\* null, and white space between tokens; anything else is a decode error.

\* smallest i >= from with s[i] = c, 0 when there is none
IndexOf(s, c, from) ==
    LET hits == {i \in from..Len(s) : s[i] = c}
    IN  IF hits = {} THEN 0 ELSE Least(hits)

PFail == [ok |-> FALSE, val |-> JNone, next |-> 0]
POk(val, next) == [ok |-> TRUE, val |-> val, next |-> next]

\* s[i] is the opening quote; a raw control character inside is an error
ParseString(s, i) ==
    LET j == IndexOf(s, Q, i + 1)
    IN  IF j = 0 \/ \E k \in (i + 1)..(j - 1) : s[k] \in {"\n", "\t"}
        THEN PFail
        ELSE POk(JStr(SubSeq(s, i + 1, j - 1)), j + 1)

RECURSIVE ParseValue(_, _)
RECURSIVE ParseElems(_, _, _)
RECURSIVE ParseMembers(_, _, _)

ParseElems(s, i, acc) ==
    LET r == ParseValue(s, i)
    IN  IF ~r.ok THEN PFail
        ELSE LET k == SkipWS(s, r.next)
                 acc2 == Append(acc, r.val)
             IN  CASE At(s, k) = "," -> ParseElems(s, k + 1, acc2)
                   [] At(s, k) = "]" -> POk(JList(acc2), k + 1)
                   [] OTHER -> PFail

ParseMembers(s, i, acc) ==
    LET j == SkipWS(s, i)
        key == ParseString(s, j)
        c == SkipWS(s, key.next)
        r == ParseValue(s, c + 1)
        k == SkipWS(s, r.next)
        acc2 == Put(acc, key.val.v, r.val)
    IN  IF At(s, j) # Q THEN PFail
        ELSE IF ~key.ok THEN PFail
        ELSE IF At(s, c) # ":" THEN PFail
        ELSE IF ~r.ok THEN PFail
        ELSE CASE At(s, k) = "," -> ParseMembers(s, k + 1, acc2)
               [] At(s, k) = "}" -> POk(JDict(acc2), k + 1)
               [] OTHER -> PFail

ParseValue(s, i) ==
    LET j == SkipWS(s, i)
        c == At(s, j)
        n == SkipWS(s, j + 1)
    IN  CASE c = Q -> ParseString(s, j)
          [] c = "[" -> IF At(s, n) = "]" THEN POk(JList(<<>>), n + 1)
                        ELSE ParseElems(s, j + 1, <<>>)
          [] c = "{" -> IF At(s, n) = "}" THEN POk(JDict(EmptyMap), n + 1)
                        ELSE ParseMembers(s, j + 1, EmptyMap)
          [] c = "n" -> IF j + 3 <= Len(s) /\ SubSeq(s, j, j + 3) = <<"n", "u", "l", "l">>
                        THEN POk(JNone, j + 4)
                        ELSE PFail
          [] OTHER -> PFail

\* json.loads(txt): ok is FALSE where the code's json.loads raises
json_loads(txt) ==
    LET r == ParseValue(txt, 1)
    IN  IF r.ok /\ SkipWS(txt, r.next) > Len(txt)
        THEN [ok |-> TRUE, val |-> r.val]
        ELSE [ok |-> FALSE, val |-> JNone]

\* ------------------------------------------------------------ the nested helpers

MaxItems == 20
ExcerptLen == 4000

Quoted(k) == <<Q>> \o k \o <<Q>>

\* the summary dicts the code builds literally
Dict2(rp, ss) ==
    JDict([k \in {K_resumo_problema, K_sugestao_solucao} |->
              IF k = K_resumo_problema THEN JStr(rp) ELSE JStr(ss)])

Dict3(rp, ss, lst) ==
    JDict([k \in {K_resumo_problema, K_sugestao_solucao, K_sugestao_solucao_lista} |->
              IF k = K_resumo_problema THEN JStr(rp)
              ELSE IF k = K_sugestao_solucao THEN JStr(ss)
              ELSE lst])

\* re.search(r'"<key>"\s*:\s*<open>(.*?)<close>', txt, re.DOTALL): the first
\* position at which the whole pattern matches, and its group(1)
RECURSIVE SearchField(_, _, _, _, _)
SearchField(txt, key, open, close, from) ==
    LET i == Find(txt, Quoted(key), from)
        c == SkipWS(txt, i + Len(key) + 2)
        o == SkipWS(txt, c + 1)
        e == IndexOf(txt, close, o + 1)
    IN  IF i = 0 THEN [found |-> FALSE, group |-> <<>>]
        ELSE IF At(txt, c) = ":" /\ At(txt, o) = open /\ e # 0
        THEN [found |-> TRUE, group |-> SubSeq(txt, o + 1, e - 1)]
        ELSE SearchField(txt, key, open, close, i + 1)

\* lines 213-219: the scraped list, [some, val]; some = FALSE is lst = None
ScrapedList(m_lst, arr) ==
    IF m_lst.found /\ arr.ok THEN [some |-> TRUE, val |-> arr.val]
    ELSE [some |-> FALSE, val |-> JNone]

\* lines 195-228 on the results of json.loads and of the three searches
ExtractStructured(parsed, m_rp, m_ss, lst) ==
    IF parsed.ok /\ IsDict(parsed.val) THEN [some |-> TRUE, val |-> parsed.val]
    ELSE IF m_rp.found \/ m_ss.found \/ lst.some
    THEN [some |-> TRUE,
          val |-> Dict3(IF m_rp.found THEN Strip(m_rp.group) ELSE <<>>,
                        IF m_ss.found THEN Strip(m_ss.group) ELSE <<>>,
                        IF lst.some /\ Truthy(lst.val) THEN lst.val ELSE JList(<<>>))]
    ELSE [some |-> FALSE, val |-> JNone]

ListSearch(m_lst) == ScrapedList(m_lst, json_loads(<<"[">> \o m_lst.group \o <<"]">>))

\* _extract_structured_from_text: [some, val]; some = FALSE is the code's None
extract_structured_from_text(txt) ==
    ExtractStructured(json_loads(txt),
                      SearchField(txt, K_resumo_problema, Q, Q, 1),
                      SearchField(txt, K_sugestao_solucao, Q, Q, 1),
                      ListSearch(SearchField(txt, K_sugestao_solucao_lista, "[", "]", 1)))

\* the same match without the white space the pattern asks for after the marker
BulletMatchAnyRest(line) ==
    LET d == SkipDigits(line, 1)
        m == IF At(line, 1) \in BulletChars THEN 2
             ELSE IF d > 1 /\ At(line, d) \in {".", ")"} THEN d + 1
             ELSE 0
        r == SkipWS(line, m)
    IN  IF m # 0 /\ r <= Len(line)
        THEN [ok |-> TRUE, group |-> SubSeq(line, r, Len(line))]
        ELSE [ok |-> FALSE, group |-> <<>>]

\* re.match(r"^(?:[-*<bullet><en dash><em dash>]\s+|\d+[\.)]\s+)(.+)$", line)
\* on a stripped line: [ok, group]
BulletMatch(line) ==
    LET d == SkipDigits(line, 1)
        m == IF At(line, 1) \in BulletChars THEN 2
             ELSE IF d > 1 /\ At(line, d) \in {".", ")"} THEN d + 1
             ELSE 0
        r == SkipWS(line, m)
    IN  IF m # 0 /\ r > m /\ r <= Len(line)
        THEN [ok |-> TRUE, group |-> SubSeq(line, r, Len(line))]
        ELSE [ok |-> FALSE, group |-> <<>>]

RECURSIVE BulletsLoop(_, _, _)
BulletsLoop(lines, items, max_items) ==
    IF lines = <<>> THEN items
    ELSE LET line == Strip(Head(lines))
             m == BulletMatch(line)
             val == Strip(m.group)
             items2 == Append(items, val)
         IN  IF m.ok /\ val # <<>> /\ ~InSeq(val, items)
             THEN IF Len(items2) >= max_items THEN items2
                  ELSE BulletsLoop(Tail(lines), items2, max_items)
             ELSE BulletsLoop(Tail(lines), items, max_items)

\* _extract_bullets_from_text(txt, max_items = 20)
extract_bullets_from_text(txt) == BulletsLoop(SplitLines(txt), <<>>, MaxItems)

Strs(xs) == [i \in 1..Len(xs) |-> JStr(xs[i])]

\* how a helper ends: it returns a value or raises
Ret(val) == [st |-> "return", val |-> val, exc |-> "none"]
Raise(exc) == [st |-> "raise", val |-> JNone, exc |-> exc]

\* what requests.post / raise_for_status / r.json() / data.get raise for an outcome
TransportError(o) ==
    CASE o.kind = "conn_error" -> "ConnectionError"
      [] o.kind = "timeout" -> "Timeout"
      [] o.kind = "http_error" -> "HTTPError"
      [] o.shape = "bad_json" -> "JSONDecodeError"
      [] o.shape = "not_dict" -> "AttributeError"
      [] OTHER -> "none"

\* lines 247-251 and 252-256: json.loads of the text, or the parse placeholder
ParsedOrPlaceholder(p) ==
    IF p.ok THEN Ret(p.val) ELSE Ret(Dict2(ErrParseJSON, NA))

\* post_and_parse(payload), as a function of the outcome of its request
post_and_parse(o) ==
    IF TransportError(o) # "none" THEN Raise(TransportError(o))
    ELSE IF o.shape = "message_no_text" THEN ParsedOrPlaceholder(json_loads(EmptyObjectText))
    ELSE IF o.shape \in {"message", "output_text"} THEN ParsedOrPlaceholder(json_loads(o.text))
    ELSE Ret(Dict2(ErrNoContent, NA))

\* the same without the default of the list
SummaryOfAsParsed(txt, structured) ==
    IF structured.some THEN structured.val
    ELSE Dict3(txt, <<>>, JList(Strs(extract_bullets_from_text(txt))))

\* lines 296-302 and 306-312 on the result of _extract_structured_from_text
SummaryOf(txt, structured) ==
    IF structured.some
    THEN JDict(Put(structured.val.v, K_sugestao_solucao_lista,
                   IF Truthy(Get(structured.val, K_sugestao_solucao_lista, JNone))
                   THEN Get(structured.val, K_sugestao_solucao_lista, JNone)
                   ELSE JList(<<>>)))
    ELSE Dict3(txt, <<>>, JList(Strs(extract_bullets_from_text(txt))))

\* lines 295-302 and 305-312: the summary built from the returned text
SummaryFromText(txt) == SummaryOf(txt, extract_structured_from_text(txt))

\* lines 293 and 304: the text taken from the answer
ReturnedText(o) ==
    IF o.shape = "message" THEN Strip(o.text)
    ELSE IF o.shape = "message_no_text" THEN <<>>
    ELSE o.text

\* post_and_text(payload), as a function of the outcome of its request
post_and_text(o) ==
    IF TransportError(o) # "none" THEN Raise(TransportError(o))
    ELSE IF o.shape \in {"message", "message_no_text", "output_text"}
    THEN Ret(SummaryFromText(ReturnedText(o)))
    ELSE Ret(Dict3(<<>>, <<>>, JList(<<>>)))

\* the same test on the summary as it is, not stripped
valid_structured_unstripped(ai) ==
    IF ~IsDict(ai) THEN FALSE
    ELSE LET rp == PyStr(Get(ai, K_resumo_problema, JStr(<<>>)))
         IN  rp # <<>> /\ ~StartsWith(rp, ErrPrefix)

\* _valid_structured(ai): a non-dict makes ai.get raise, which the helper turns
\* into False
valid_structured(ai) ==
    IF ~IsDict(ai) THEN FALSE
    ELSE LET rp == Strip(PyStr(Get(ai, K_resumo_problema, JStr(<<>>))))
         IN  rp # <<>> /\ ~StartsWith(rp, ErrPrefix)

\* the debug_meta dict; of its fields the model keeps the three that differ
\* between the return sites
Meta(path, format, token_param) ==
    [t |-> "meta", v |-> [path |-> path, format |-> format, token_param |-> token_param]]

\* _safe_excerpt(obj): json.dumps of a str without characters to escape, cut
safe_excerpt(obj) ==
    LET dumped == Quoted(obj)
    IN  SubSeq(dumped, 1, IF Len(dumped) < ExcerptLen THEN Len(dumped) ELSE ExcerptLen)

\* '{"resumo_problema":"VPN down","sugestao_solucao":"Restart","sugestao_solucao_lista":["a","b"]}'
JsonGood ==
    <<"{", "\"", "r", "e", "s", "u", "m", "o", "_", "p", "r", "o", "b", "l", "e", "m", "a",
      "\"", ":", "\"", "V", "P", "N", " ", "d", "o", "w", "n", "\"", ",", "\"", "s", "u",
      "g", "e", "s", "t", "a", "o", "_", "s", "o", "l", "u", "c", "a", "o", "\"", ":",
      "\"", "R", "e", "s", "t", "a", "r", "t", "\"", ",", "\"", "s", "u", "g", "e", "s",
      "t", "a", "o", "_", "s", "o", "l", "u", "c", "a", "o", "_", "l", "i", "s", "t", "a",
      "\"", ":", "[", "\"", "a", "\"", ",", "\"", "b", "\"", "]", "}">>

\* '{"resumo_problema":"","sugestao_solucao":"n/a","sugestao_solucao_lista":[]}'
JsonEmptySummary ==
    <<"{", "\"", "r", "e", "s", "u", "m", "o", "_", "p", "r", "o", "b", "l", "e", "m", "a",
      "\"", ":", "\"", "\"", ",", "\"", "s", "u", "g", "e", "s", "t", "a", "o", "_", "s",
      "o", "l", "u", "c", "a", "o", "\"", ":", "\"", "n", "/", "a", "\"", ",", "\"", "s",
      "u", "g", "e", "s", "t", "a", "o", "_", "s", "o", "l", "u", "c", "a", "o", "_", "l",
      "i", "s", "t", "a", "\"", ":", "[", "]", "}">>

\* '{"resumo_problema":" ","sugestao_solucao":"x","sugestao_solucao_lista":["a"]}'
JsonBlankSummary ==
    <<"{", "\"", "r", "e", "s", "u", "m", "o", "_", "p", "r", "o", "b", "l", "e", "m", "a",
      "\"", ":", "\"", " ", "\"", ",", "\"", "s", "u", "g", "e", "s", "t", "a", "o", "_",
      "s", "o", "l", "u", "c", "a", "o", "\"", ":", "\"", "x", "\"", ",", "\"", "s", "u",
      "g", "e", "s", "t", "a", "o", "_", "s", "o", "l", "u", "c", "a", "o", "_", "l", "i",
      "s", "t", "a", "\"", ":", "[", "\"", "a", "\"", "]", "}">>

\* '{"resumo_problema":"Error: x","sugestao_solucao":"y","sugestao_solucao_lista":[]}'
JsonErrorColon ==
    <<"{", "\"", "r", "e", "s", "u", "m", "o", "_", "p", "r", "o", "b", "l", "e", "m", "a",
      "\"", ":", "\"", "E", "r", "r", "o", "r", ":", " ", "x", "\"", ",", "\"", "s", "u",
      "g", "e", "s", "t", "a", "o", "_", "s", "o", "l", "u", "c", "a", "o", "\"", ":",
      "\"", "y", "\"", ",", "\"", "s", "u", "g", "e", "s", "t", "a", "o", "_", "s", "o",
      "l", "u", "c", "a", "o", "_", "l", "i", "s", "t", "a", "\"", ":", "[", "]", "}">>

\* '{"resumo_problema":"Error in disk","sugestao_solucao":"y","sugestao_solucao_lista":["a"]}'
JsonErrorWord ==
    <<"{", "\"", "r", "e", "s", "u", "m", "o", "_", "p", "r", "o", "b", "l", "e", "m", "a",
      "\"", ":", "\"", "E", "r", "r", "o", "r", " ", "i", "n", " ", "d", "i", "s", "k",
      "\"", ",", "\"", "s", "u", "g", "e", "s", "t", "a", "o", "_", "s", "o", "l", "u",
      "c", "a", "o", "\"", ":", "\"", "y", "\"", ",", "\"", "s", "u", "g", "e", "s", "t",
      "a", "o", "_", "s", "o", "l", "u", "c", "a", "o", "_", "l", "i", "s", "t", "a", "\"",
      ":", "[", "\"", "a", "\"", "]", "}">>

\* '{"resumo_problema":"error: x","sugestao_solucao":"y","sugestao_solucao_lista":["a"]}'
JsonLowerError ==
    <<"{", "\"", "r", "e", "s", "u", "m", "o", "_", "p", "r", "o", "b", "l", "e", "m", "a",
      "\"", ":", "\"", "e", "r", "r", "o", "r", ":", " ", "x", "\"", ",", "\"", "s", "u",
      "g", "e", "s", "t", "a", "o", "_", "s", "o", "l", "u", "c", "a", "o", "\"", ":",
      "\"", "y", "\"", ",", "\"", "s", "u", "g", "e", "s", "t", "a", "o", "_", "s", "o",
      "l", "u", "c", "a", "o", "_", "l", "i", "s", "t", "a", "\"", ":", "[", "\"", "a",
      "\"", "]", "}">>

\* '{"resumo_problema":null,"sugestao_solucao":"y","sugestao_solucao_lista":["a"]}'
JsonNullSummary ==
    <<"{", "\"", "r", "e", "s", "u", "m", "o", "_", "p", "r", "o", "b", "l", "e", "m", "a",
      "\"", ":", "n", "u", "l", "l", ",", "\"", "s", "u", "g", "e", "s", "t", "a", "o",
      "_", "s", "o", "l", "u", "c", "a", "o", "\"", ":", "\"", "y", "\"", ",", "\"", "s",
      "u", "g", "e", "s", "t", "a", "o", "_", "s", "o", "l", "u", "c", "a", "o", "_", "l",
      "i", "s", "t", "a", "\"", ":", "[", "\"", "a", "\"", "]", "}">>

\* '{ "resumo_problema" : "x",\n "sugestao_solucao" : "y" }'
JsonNoList ==
    <<"{", " ", "\"", "r", "e", "s", "u", "m", "o", "_", "p", "r", "o", "b", "l", "e", "m",
      "a", "\"", " ", ":", " ", "\"", "x", "\"", ",", "\n", " ", "\"", "s", "u", "g", "e",
      "s", "t", "a", "o", "_", "s", "o", "l", "u", "c", "a", "o", "\"", " ", ":", " ",
      "\"", "y", "\"", " ", "}">>

\* '{"resumo":"VPN down","sugestao":"Restart","sugestao_solucao_lista":["a"]}'
JsonSynonym ==
    <<"{", "\"", "r", "e", "s", "u", "m", "o", "\"", ":", "\"", "V", "P", "N", " ", "d",
      "o", "w", "n", "\"", ",", "\"", "s", "u", "g", "e", "s", "t", "a", "o", "\"", ":",
      "\"", "R", "e", "s", "t", "a", "r", "t", "\"", ",", "\"", "s", "u", "g", "e", "s",
      "t", "a", "o", "_", "s", "o", "l", "u", "c", "a", "o", "_", "l", "i", "s", "t", "a",
      "\"", ":", "[", "\"", "a", "\"", "]", "}">>

\* '["a"]'
JsonArray ==
    <<"[", "\"", "a", "\"", "]">>

\* '1. Check logs\n2. Restart service'
TxtNumbered ==
    <<"1", ".", " ", "C", "h", "e", "c", "k", " ", "l", "o", "g", "s", "\n", "2", ".", " ",
      "R", "e", "s", "t", "a", "r", "t", " ", "s", "e", "r", "v", "i", "c", "e">>

\* ' - a\n-b\n* a\n3) c \n- \n\u2022 d\n\u2013 e\n\u2014 f\n12. g\n1.h\n'
TxtBullets ==
    <<" ", "-", " ", "a", "\n", "-", "b", "\n", "*", " ", "a", "\n", "3", ")", " ", "c",
      " ", "\n", "-", " ", "\n", BULLET, " ", "d", "\n", ENDASH, " ", "e", "\n", EMDASH,
      " ", "f", "\n", "1", "2", ".", " ", "g", "\n", "1", ".", "h", "\n">>

\* 'No idea'
TxtPlain ==
    <<"N", "o", " ", "i", "d", "e", "a">>

\* 'Here: {"resumo_problema": " abc ", "sugestao_solucao_lista": ["a", "b"], } bye'
TxtScrape ==
    <<"H", "e", "r", "e", ":", " ", "{", "\"", "r", "e", "s", "u", "m", "o", "_", "p", "r",
      "o", "b", "l", "e", "m", "a", "\"", ":", " ", "\"", " ", "a", "b", "c", " ", "\"",
      ",", " ", "\"", "s", "u", "g", "e", "s", "t", "a", "o", "_", "s", "o", "l", "u", "c",
      "a", "o", "_", "l", "i", "s", "t", "a", "\"", ":", " ", "[", "\"", "a", "\"", ",",
      " ", "\"", "b", "\"", "]", ",", " ", "}", " ", "b", "y", "e">>

\* 'x "sugestao_solucao":"s" "sugestao_solucao_lista":[a] - b'
TxtScrapeBadList ==
    <<"x", " ", "\"", "s", "u", "g", "e", "s", "t", "a", "o", "_", "s", "o", "l", "u", "c",
      "a", "o", "\"", ":", "\"", "s", "\"", " ", "\"", "s", "u", "g", "e", "s", "t", "a",
      "o", "_", "s", "o", "l", "u", "c", "a", "o", "_", "l", "i", "s", "t", "a", "\"", ":",
      "[", "a", "]", " ", "-", " ", "b">>

\* 'Unsupported parameter: use max_completion_tokens'
BodyTokens ==
    <<"U", "n", "s", "u", "p", "p", "o", "r", "t", "e", "d", " ", "p", "a", "r", "a", "m",
      "e", "t", "e", "r", ":", " ", "u", "s", "e", " ", "m", "a", "x", "_", "c", "o", "m",
      "p", "l", "e", "t", "i", "o", "n", "_", "t", "o", "k", "e", "n", "s">>

\* 'server error'
BodyOther ==
    <<"s", "e", "r", "v", "e", "r", " ", "e", "r", "r", "o", "r">>

\* '400 Client Error'
StrHTTPError ==
    <<"4", "0", "0", " ", "C", "l", "i", "e", "n", "t", " ", "E", "r", "r", "o", "r">>

\* more bullet lines than max_items, each with its own item: "- a", "- b", ...
ManyLines == 22

Letters ==
    <<"a", "b", "c", "d", "e", "f", "g", "h", "i", "j", "k", "l", "m",
      "n", "o", "p", "q", "r", "s", "t", "u", "v", "w", "x", "y", "z">>

RECURSIVE Rep(_, _)
Rep(c, n) == IF n = 0 THEN <<>> ELSE <<c>> \o Rep(c, n - 1)

Item(i) == Rep(Letters[((i - 1) % 26) + 1], 1 + ((i - 1) \div 26))

RECURSIVE ManyBullets(_)
ManyBullets(n) ==
    IF n = 0 THEN <<>> ELSE ManyBullets(n - 1) \o <<"-", " ">> \o Item(n) \o <<NL>>

TxtMany == ManyBullets(ManyLines)

\* the texts a model answer may carry
Texts ==
    {JsonGood, JsonEmptySummary, JsonBlankSummary, JsonErrorColon, JsonErrorWord,
     JsonLowerError, JsonNullSummary, JsonNoList, JsonSynonym, JsonArray,
     TxtNumbered, TxtBullets, TxtPlain, TxtScrape, TxtScrapeBadList, TxtMany, <<>>}

\* the texts also answered in the top-level output_text shape
OutputTexts == {JsonGood, JsonEmptySummary, TxtBullets, TxtPlain}

Outcome(kind, shape, text, error_text) ==
    [kind |-> kind, shape |-> shape, text |-> text, body |-> error_text]

NoResp == Outcome("none", "none", <<>>, <<>>)

\* every outcome of one generation request: a 2xx answer in each body shape the
\* code looks for, an HTTP error status with a body, a connection failure, a
\* timeout
Outcomes ==
    {Outcome("ok", "message", t, <<>>) : t \in Texts}
    \cup {Outcome("ok", "output_text", t, <<>>) : t \in OutputTexts}
    \cup {Outcome("ok", s, <<>>, <<>>) : s \in {"message_no_text", "empty", "not_dict", "bad_json"}}
    \cup {Outcome("http_error", "none", <<>>, b) : b \in {BodyTokens, BodyOther, <<>>}}
    \cup {Outcome("conn_error", "none", <<>>, <<>>), Outcome("timeout", "none", <<>>, <<>>)}

\* ------------------------------------------------------------ call_openai_simplified

aivars == <<dbg, model_gpt5, is_gpt5, reqlog, resp, call, body, pool>>
mainvars ==
    <<MODE, style, cycle, blob, issues, new_tickets, todo, passed, issue, posts, comments, ending,
      earlier, effects>>
tkvars == <<raw, given, results>>
dtvars == <<stamp, instant>>
wmvars == <<last_seen, watermark, persisted, tickets, round>>
srvars == <<response, searched>>
sidevars == <<dtvars, wmvars, srvars>>
vars == <<pc, aivars, mainvars, tkvars, sidevars>>

\* nothing was parsed, polled or searched
NoParse == [st |-> "none", some |-> FALSE, val |-> [day |-> 0, sec |-> 0]]
NoFound == [st |-> "none", tickets |-> <<>>]
SideIdle ==
    /\ stamp = <<>>
    /\ instant = NoParse
    /\ last_seen = 0
    /\ watermark = 0
    /\ persisted = <<>>
    /\ tickets = <<>>
    /\ round = 0
    /\ response = [kind |-> "none"]
    /\ searched = NoFound

Unbound == [bound |-> FALSE, val |-> FALSE]
NoCall == [st |-> "none", val |-> JNone, exc |-> "none", site |-> "none"]

\* a request payload: its text.format type, its token parameter, the system
\* and user input it carries, and the two keys only the text payloads have
Req(format, token_param, reasoning) ==
    [format |-> format, token_param |-> token_param,
     system |-> "system_text", input |-> "parts",
     reasoning |-> reasoning, tool_choice |-> (format = "text")]

\* requests.post: the request goes out and an outcome comes back
Issue(r, o) ==
    /\ reqlog' = Append(reqlog, [req |-> r, status |-> o.kind])
    /\ resp' = o

\* a return statement of call_openai_simplified, named by its debug path
Return(val, site) ==
    /\ call' = [st |-> "returned", val |-> val, exc |-> "none", site |-> site]
    /\ pc' = "ai_done"

\* an exception that leaves call_openai_simplified
RaiseOut(exc) ==
    /\ call' = [st |-> "raised", val |-> JNone, exc |-> exc, site |-> "none"]
    /\ pc' = "ai_done"

\* lines 463-465: except Exception: pass, then the placeholder
ReturnPlaceholder == Return(Dict2(ErrProcess, NA), "error")

\* lines 384-386 and 434-446: the entry of except requests.HTTPError, up to
\* the next request or the first exception; ig is is_gpt5 as the try left it
EnterHandler(text, ig) ==
    LET b == IF text # <<>> THEN text ELSE StrHTTPError
    IN  /\ body' = b
        /\ IF Contains(b, TokenMarker)
           THEN pc' = "schema_compat" /\ UNCHANGED call
           ELSE IF ~ig.bound
           THEN RaiseOut("UnboundLocalError")
           ELSE pc' = "text_http_error" /\ UNCHANGED call

\* result.setdefault("debug_meta", meta) when debugging is on
WithMeta(val, path, format, token_param) ==
    IF dbg THEN SetDefault(val, K_debug_meta, Meta(path, format, token_param)) ELSE val

\* lines 339-356 on what post_and_parse gave
AfterPrimary(o, r) ==
    IF r.st = "raise" /\ r.exc = "HTTPError"
    THEN EnterHandler(o.body, is_gpt5) /\ UNCHANGED is_gpt5
    ELSE IF r.st = "raise" \/ (dbg /\ ~IsDict(r.val))
    THEN ReturnPlaceholder /\ UNCHANGED <<is_gpt5, body>>
    ELSE IF valid_structured(r.val)
    THEN /\ Return(WithMeta(r.val, "schema", "json_schema", "max_output_tokens"), "schema")
         /\ UNCHANGED <<is_gpt5, body>>
    ELSE /\ is_gpt5' = [bound |-> TRUE, val |-> model_gpt5]
         /\ pc' = "text_fallback"
         /\ UNCHANGED <<call, body>>

\* lines 338-356: the primary json_schema request
PostPrimary ==
    /\ pc = "primary"
    /\ \E o \in pool :
        /\ Issue(Req("json_schema", "max_output_tokens", FALSE), o)
        /\ AfterPrimary(o, post_and_parse(o))
    /\ UNCHANGED <<dbg, model_gpt5, pool, mainvars, tkvars, sidevars>>

\* lines 370-383 on what post_and_text gave
AfterTextFallback(o, r) ==
    IF r.st = "raise" /\ r.exc = "HTTPError"
    THEN EnterHandler(o.body, is_gpt5)
    ELSE IF r.st = "raise"
    THEN ReturnPlaceholder /\ UNCHANGED body
    ELSE /\ Return(WithMeta(r.val, "text_fallback", "text", "max_output_tokens"),
                   "text_fallback")
         /\ UNCHANGED body

\* lines 357-383: the free-text request of the try block
PostTextFallback ==
    /\ pc = "text_fallback"
    /\ \E o \in pool :
        /\ Issue(Req("text", "max_output_tokens", is_gpt5.val), o)
        /\ AfterTextFallback(o, post_and_text(o))
    /\ UNCHANGED <<dbg, model_gpt5, is_gpt5, pool, mainvars, tkvars, sidevars>>

\* lines 391-417 on what post_and_parse gave; nothing catches what is raised here
AfterSchemaCompat(r) ==
    IF r.st = "raise"
    THEN RaiseOut(r.exc)
    ELSE IF dbg /\ ~IsDict(r.val)
    THEN RaiseOut("AttributeError")
    ELSE IF valid_structured(r.val)
    THEN Return(WithMeta(r.val, "schema_compat_token", "json_schema", "max_completion_tokens"),
                "schema_compat_token")
    ELSE IF ~is_gpt5.bound
    THEN RaiseOut("UnboundLocalError")
    ELSE pc' = "text_compat" /\ UNCHANGED call

\* lines 387-417: inside the handler, the json_schema request repeated with
\* max_completion_tokens
PostSchemaCompat ==
    /\ pc = "schema_compat"
    /\ \E o \in pool :
        /\ Issue(Req("json_schema", "max_completion_tokens", FALSE), o)
        /\ AfterSchemaCompat(post_and_parse(o))
    /\ UNCHANGED <<dbg, model_gpt5, is_gpt5, body, pool, mainvars, tkvars, sidevars>>

\* the free-text result of a handler branch, with its two debug keys
HandlerTextResult(val, path, token_param) ==
    IF dbg
    THEN JDict(Put(SetDefault(val, K_debug_meta, Meta(path, "text", token_param)).v,
                   K_debug_response_excerpt, JStr(safe_excerpt(body))))
    ELSE val

\* a handler that answers a failed free-text request of the compat branch with
\* the free-text request of the other branch
AfterHandlerTextRetrying(r, path, token_param) ==
    IF r.st = "raise" /\ pc = "text_compat"
    THEN pc' = "text_http_error" /\ UNCHANGED call
    ELSE IF r.st = "raise"
    THEN RaiseOut(r.exc)
    ELSE Return(HandlerTextResult(r.val, path, token_param), path)

\* lines 419-433 and 448-462 on what post_and_text gave
AfterHandlerText(r, path, token_param) ==
    IF r.st = "raise"
    THEN RaiseOut(r.exc)
    ELSE Return(HandlerTextResult(r.val, path, token_param), path)

\* lines 406-433: the free-text request after the repeated json_schema one
PostTextCompat ==
    /\ pc = "text_compat"
    /\ \E o \in pool :
        /\ Issue(Req("text", "max_completion_tokens", is_gpt5.val), o)
        /\ AfterHandlerText(post_and_text(o), "text_fallback_compat_token",
                            "max_completion_tokens")
    /\ UNCHANGED <<dbg, model_gpt5, is_gpt5, body, pool, mainvars, tkvars, sidevars>>

\* lines 435-462: the free-text request after any other HTTP error
PostTextHttpError ==
    /\ pc = "text_http_error"
    /\ \E o \in pool :
        /\ Issue(Req("text", "max_output_tokens", is_gpt5.val), o)
        /\ AfterHandlerText(post_and_text(o), "text_fallback_http_error",
                            "max_output_tokens")
    /\ UNCHANGED <<dbg, model_gpt5, is_gpt5, body, pool, mainvars, tkvars, sidevars>>

\* ------------------------------------------------------------ process_issue and main

ID_BOARD_SERVICOS == "9"
MaxCycles == 2
MaxFetch == 2

\* tickets as search_tickets returns them: the id and, per list, the ids of its
\* boards (an empty set is boards = None); an empty lists is lists = None
Catalog ==
    {[id |-> "101", lists |-> [l \in {"1"} |-> {"9"}]],
     [id |-> "102", lists |-> [l \in {"1", "2"} |-> IF l = "1" THEN {} ELSE {"7", "9"}]],
     [id |-> "103", lists |-> [l \in {"3"} |-> {"7"}]],
     [id |-> "104", lists |-> [l \in {} |-> {}]]}

NoIssue == [id |-> "none", lists |-> [l \in {} |-> {}]]

RECURSIVE SeqsUpTo(_, _)
SeqsUpTo(S, n) ==
    IF n = 0 THEN {<<>>}
    ELSE LET shorter == SeqsUpTo(S, n - 1)
         IN  shorter \cup {Append(s, x) : s \in shorter, x \in S}

\* the order the search lists the tickets in
ListedOrder == <<"101", "102", "103", "104">>

Rank(id) == CHOOSE k \in 1..Len(ListedOrder) : ListedOrder[k] = id

Listed(s) == \A i, j \in 1..Len(s) : i < j => Rank(s[i].id) < Rank(s[j].id)

\* what one search returns: up to MaxFetch tickets, each id once, in the order
\* of the listing
Fetches == {s \in SeqsUpTo(Catalog, MaxFetch) : Listed(s)}

Ids(s) == {s[i].id : i \in 1..Len(s)}
IdSeq(s) == [i \in 1..Len(s) |-> s[i].id]

\* new_tickets = [issue for issue in issues if str(issue.id) not in processed_ids]
RECURSIVE NewTickets(_, _)
NewTickets(s, processed_ids) ==
    IF s = <<>> THEN <<>>
    ELSE IF Head(s).id \in processed_ids THEN NewTickets(Tail(s), processed_ids)
    ELSE <<Head(s)>> \o NewTickets(Tail(s), processed_ids)

\* a check that accepts any board
board_found_any_board(t) == \E l \in DOMAIN t.lists : t.lists[l] # {}

\* lines 752-757
board_found(t) == \E l \in DOMAIN t.lists : ID_BOARD_SERVICOS \in t.lists[l]

\* the outcomes of the generation service in the polling model
MainOutcomes ==
    {Outcome("ok", "message", JsonGood, <<>>),
     Outcome("ok", "message", JsonEmptySummary, <<>>),
     Outcome("ok", "message", TxtNumbered, <<>>),
     Outcome("http_error", "none", <<>>, BodyTokens),
     Outcome("http_error", "none", <<>>, BodyOther),
     Outcome("timeout", "none", <<>>, <<>>)}

\* what the blob holds when the first cycle starts: the ids an earlier run left
\* there (a blob that cannot be read is the read_ok = FALSE of MainBegin)
StoredAtStart == {"101", "103"}

\* the answers of a webhook or comment post
PostStatus == {"200", "non200", "conn_error"}

\* a check of MODE that lets every mode run
AnyMode == {"development", "production", "staging"}

\* line 843: the two modes main runs in
ValidModes == {"development", "production"}

\* a comment written in every mode
CommentModesAll == {"production", "development", "staging"}

\* line 784: the comment is written in production only
CommentModes == {"production"}

\* an upload that adds the ids of the fetch to the stored ones
save_processed_ids_merging(stored, all_ids_from_current_fetch) ==
    stored \cup all_ids_from_current_fetch

\* lines 853-856 and 71-77: what an upload that succeeds leaves in the blob,
\* given what it held and the ids of the fetch
save_processed_ids(stored, all_ids_from_current_fetch) == all_ids_from_current_fetch

\* lines 819-846: load the ids, search, filter, check MODE; a failed blob read
\* is an empty set and a failed search an empty list
MainBegin ==
    /\ pc = "main_start"
    /\ \E read_ok \in BOOLEAN, fetched \in Fetches :
        LET processed_ids == IF read_ok THEN blob ELSE {}
        IN  /\ issues' = fetched
            /\ new_tickets' = NewTickets(fetched, processed_ids)
            /\ IF MODE \in ValidModes
               THEN /\ todo' = NewTickets(fetched, processed_ids)
                    /\ pc' = "loop"
                    /\ ending' = "none"
               ELSE /\ todo' = <<>>
                    /\ pc' = "cycle_end"
                    /\ ending' = "bad_mode"
    /\ UNCHANGED <<MODE, style, cycle, blob, passed, issue, posts, comments, earlier, effects>>
    /\ UNCHANGED <<aivars, tkvars, sidevars>>

\* lines 848-849 and 752-763: the next ticket of the loop enters process_issue,
\* which returns None at once or starts the AI call
LoopStep ==
    /\ pc = "loop"
    /\ todo # <<>>
    /\ issue' = Head(todo)
    /\ todo' = Tail(todo)
    /\ passed' = Append(passed, Head(todo).id)
    /\ posts' = <<>>
    /\ comments' = <<>>
    /\ effects' = IF board_found(Head(todo)) THEN <<"ai">> ELSE <<>>
    /\ IF board_found(Head(todo))
       THEN /\ pc' = "primary"
            /\ is_gpt5' = Unbound
            /\ reqlog' = <<>>
            /\ resp' = NoResp
            /\ call' = NoCall
            /\ body' = <<>>
       ELSE /\ pc' = "loop"
            /\ UNCHANGED <<is_gpt5, reqlog, resp, call, body>>
    /\ UNCHANGED <<dbg, model_gpt5, pool, MODE, style, cycle, blob, issues, new_tickets, ending, earlier>>
    /\ UNCHANGED <<tkvars, sidevars>>

\* line 763: call_openai_simplified is called outside any try of process_issue,
\* so what it raises reaches the except of main (lines 858-859); its locals end
\* with the call
AfterAI ==
    /\ pc = "ai_done"
    /\ IF call.st = "raised"
       THEN pc' = "cycle_end" /\ ending' = "exception"
       ELSE pc' = "notify" /\ UNCHANGED ending
    /\ is_gpt5' = Unbound
    /\ reqlog' = <<>>
    /\ resp' = NoResp
    /\ body' = <<>>
    /\ UNCHANGED <<dbg, model_gpt5, call, pool>>
    /\ UNCHANGED <<tkvars, sidevars>>
    /\ UNCHANGED <<MODE, style, cycle, blob, issues, new_tickets, todo, passed, issue, posts, comments>>
    /\ UNCHANGED <<earlier, effects>>

\* notify_teams(message), lines 468-483: one post
notify_teams(status) == <<[kind |-> "text", status |-> status]>>

\* notify_teams_adaptive(card, fallback_message), lines 486-521: the card post,
\* and the text post only after a non-200 answer
notify_teams_adaptive(card_status, text_status) ==
    <<[kind |-> "card", status |-> card_status]>>
    \o (IF card_status = "non200" THEN notify_teams(text_status) ELSE <<>>)

\* lines 766-781: what the try around the notification may post: nothing when
\* building the message raises, else the posts of the style's function
TeamsAttempts(message_style) ==
    {<<>>} \cup
    (IF message_style = "text"
     THEN {notify_teams(s1) : s1 \in PostStatus}
     ELSE {notify_teams_adaptive(s1, s2) : s1 \in PostStatus, s2 \in PostStatus})

\* lines 766-781: the message is built and posted inside a try, so that
\* whatever happens there the comment step follows
Notify ==
    /\ pc = "notify"
    /\ posts' \in TeamsAttempts(style)
    /\ effects' = Append(effects, "notify")
    /\ pc' = "comment"
    /\ UNCHANGED <<MODE, style, cycle, blob, issues, new_tickets, todo, passed, issue, comments, ending>>
    /\ UNCHANGED earlier
    /\ UNCHANGED <<aivars, tkvars, sidevars>>

\* lines 783-800: the comment, in production only; add_comment re-raises what
\* requests raises and process_issue catches it (lines 786-791)
Comment ==
    /\ pc = "comment"
    /\ IF MODE \in CommentModes
       THEN /\ \E ok \in BOOLEAN : comments' = <<[id |-> issue.id, ok |-> ok]>>
            /\ effects' = Append(effects, "comment")
       ELSE UNCHANGED <<comments, effects>>
    /\ pc' = "loop"
    /\ call' = NoCall
    /\ UNCHANGED <<MODE, style, cycle, blob, issues, new_tickets, todo, passed, issue, posts, ending>>
    /\ UNCHANGED earlier
    /\ UNCHANGED <<tkvars, sidevars>>
    /\ UNCHANGED <<dbg, model_gpt5, is_gpt5, reqlog, resp, body, pool>>

\* lines 853-856: after the loop, the ids of this fetch replace the stored ones;
\* a failed upload is logged and leaves the blob as it was
LoopEnd ==
    /\ pc = "loop"
    /\ todo = <<>>
    /\ IF Ids(issues) # {}
       THEN \E write_ok \in BOOLEAN :
                /\ blob' = IF write_ok THEN save_processed_ids(blob, Ids(issues)) ELSE blob
                /\ ending' = IF write_ok THEN "saved" ELSE "save_failed"
       ELSE UNCHANGED blob /\ ending' = "not_saved"
    /\ pc' = "cycle_end"
    /\ UNCHANGED <<MODE, style, cycle, issues, new_tickets, todo, passed, issue, posts, comments>>
    /\ UNCHANGED <<earlier, effects>>
    /\ UNCHANGED <<aivars, tkvars, sidevars>>

\* the timer fires again
NextCycle ==
    /\ pc = "cycle_end"
    /\ cycle < MaxCycles
    /\ cycle' = cycle + 1
    /\ pc' = "main_start"
    /\ issues' = <<>>
    /\ new_tickets' = <<>>
    /\ todo' = <<>>
    /\ passed' = <<>>
    /\ issue' = NoIssue
    /\ posts' = <<>>
    /\ comments' = <<>>
    /\ call' = NoCall
    /\ ending' = "none"
    /\ earlier' = earlier \cup {passed[i] : i \in 1..Len(passed)}
    /\ effects' = <<>>
    /\ UNCHANGED <<MODE, style, blob>>
    /\ UNCHANGED <<tkvars, sidevars>>
    /\ UNCHANGED <<dbg, model_gpt5, is_gpt5, reqlog, resp, body, pool>>

\* ------------------------------------------------------------ specifications

\* one call of call_openai_simplified(ticket), from its first request, with
\* every outcome of every request
Init ==
    /\ pc = "primary"
    /\ dbg \in BOOLEAN
    /\ model_gpt5 \in BOOLEAN
    /\ is_gpt5 = Unbound
    /\ reqlog = <<>>
    /\ resp = NoResp
    /\ call = NoCall
    /\ body = <<>>
    /\ pool = Outcomes
    /\ MODE = "development"
    /\ style = "card"
    /\ cycle = 1
    /\ blob = {}
    /\ issues = <<>>
    /\ new_tickets = <<>>
    /\ todo = <<>>
    /\ passed = <<>>
    /\ issue = NoIssue
    /\ posts = <<>>
    /\ comments = <<>>
    /\ ending = "none"
    /\ raw = JNone
    /\ given = JNone
    /\ results = <<>>
    /\ earlier = {}
    /\ effects = <<>>
    /\ SideIdle

Next ==
    \/ PostPrimary
    \/ PostTextFallback
    \/ PostSchemaCompat
    \/ PostTextCompat
    \/ PostTextHttpError

Spec == Init /\ [][Next]_vars

\* the same call, every request of which is answered, fails or times out
\* (each requests.post carries a timeout), so that the call goes on to its end
SpecFair == Init /\ [][Next]_vars /\ WF_vars(Next)

\* the timer runs of main, with the default model and debugging off
InitMain ==
    /\ pc = "main_start"
    /\ dbg = FALSE
    /\ model_gpt5 = TRUE
    /\ is_gpt5 = Unbound
    /\ reqlog = <<>>
    /\ resp = NoResp
    /\ call = NoCall
    /\ body = <<>>
    /\ pool = MainOutcomes
    /\ MODE \in {"development", "production", "staging"}
    /\ style \in {"card", "text"}
    /\ cycle = 1
    /\ blob = StoredAtStart
    /\ issues = <<>>
    /\ new_tickets = <<>>
    /\ todo = <<>>
    /\ passed = <<>>
    /\ issue = NoIssue
    /\ posts = <<>>
    /\ comments = <<>>
    /\ ending = "none"
    /\ raw = JNone
    /\ given = JNone
    /\ results = <<>>
    /\ earlier = {}
    /\ effects = <<>>
    /\ SideIdle

NextMain ==
    \/ MainBegin
    \/ LoopStep
    \/ AfterAI
    \/ Notify
    \/ Comment
    \/ LoopEnd
    \/ NextCycle
    \/ PostPrimary
    \/ PostTextFallback
    \/ PostSchemaCompat
    \/ PostTextCompat
    \/ PostTextHttpError

SpecMain == InitMain /\ [][NextMain]_vars

\* ------------------------------------------------------------ the consumers of the summary

\* 'resumo'
K_resumo ==
    <<"r", "e", "s", "u", "m", "o">>

\* 'resumo_do_problema'
K_resumo_do_problema ==
    <<"r", "e", "s", "u", "m", "o", "_", "d", "o", "_", "p", "r", "o", "b", "l", "e", "m",
      "a">>

\* 'resumoProblema'
K_resumoProblema ==
    <<"r", "e", "s", "u", "m", "o", "P", "r", "o", "b", "l", "e", "m", "a">>

\* 'sugestao'
K_sugestao ==
    <<"s", "u", "g", "e", "s", "t", "a", "o">>

\* 'sugestao_de_solucao'
K_sugestao_de_solucao ==
    <<"s", "u", "g", "e", "s", "t", "a", "o", "_", "d", "e", "_", "s", "o", "l", "u", "c",
      "a", "o">>

\* 'sugestaoDeSolucao'
K_sugestaoDeSolucao ==
    <<"s", "u", "g", "e", "s", "t", "a", "o", "D", "e", "S", "o", "l", "u", "c", "a", "o">>

\* 'solucao_sugerida'
K_solucao_sugerida ==
    <<"s", "o", "l", "u", "c", "a", "o", "_", "s", "u", "g", "e", "r", "i", "d", "a">>

\* build_ticket_adaptive_card, lines 597-602 and 603-609: the keys _get_first tries
CardResumoKeys == <<K_resumo_problema, K_resumo, K_resumo_do_problema, K_resumoProblema>>

CardSugestaoKeys ==
    <<K_sugestao_solucao, K_sugestao, K_sugestao_de_solucao, K_sugestaoDeSolucao,
      K_solucao_sugerida>>

\* build_ai_comment_html, lines 699 and 705: the keys its two loops try
CommentResumoKeys == <<K_resumo_problema, K_resumo, K_resumo_do_problema, K_resumoProblema>>

CommentSugestaoKeys ==
    <<K_sugestao_solucao, K_sugestao, K_sugestao_de_solucao, K_sugestaoDeSolucao,
      K_solucao_sugerida>>

\* _valid_structured, line 317: the one key the cascade reads the summary from
ValidResumoKeys == <<K_resumo_problema>>

\* the loop of _get_first (lines 580-581) and of build_ai_comment_html (lines
\* 699-702): the position in keys of the first key d has with a truthy value, 0
\* when it has none
FirstKey(d, keys) ==
    IF \E i \in 1..Len(keys) : keys[i] \in Keys(d) /\ Truthy(d.v[keys[i]])
    THEN Least({i \in 1..Len(keys) : keys[i] \in Keys(d) /\ Truthy(d.v[keys[i]])})
    ELSE 0

\* ------------------------------------------------------------ agidesk.py: raw records

K_id ==
    <<"i", "d">>

K_title ==
    <<"t", "i", "t", "l", "e">>

K_content ==
    <<"c", "o", "n", "t", "e", "n", "t">>

K_htmlcontent ==
    <<"h", "t", "m", "l", "c", "o", "n", "t", "e", "n", "t">>

K_created_at ==
    <<"c", "r", "e", "a", "t", "e", "d", "_", "a", "t">>

K_lists ==
    <<"l", "i", "s", "t", "s">>

K_boards ==
    <<"b", "o", "a", "r", "d", "s">>

K_customer ==
    <<"c", "u", "s", "t", "o", "m", "e", "r">>

K_contact ==
    <<"c", "o", "n", "t", "a", "c", "t">>

K_customers ==
    <<"c", "u", "s", "t", "o", "m", "e", "r", "s">>

K_contacts ==
    <<"c", "o", "n", "t", "a", "c", "t", "s">>

K_fullcustomer ==
    <<"f", "u", "l", "l", "c", "u", "s", "t", "o", "m", "e", "r">>

K_fullcontact ==
    <<"f", "u", "l", "l", "c", "o", "n", "t", "a", "c", "t">>

K_list_id ==
    <<"l", "i", "s", "t", "_", "i", "d">>

K_board_id ==
    <<"b", "o", "a", "r", "d", "_", "i", "d">>

K_slug ==
    <<"s", "l", "u", "g">>

K_default ==
    <<"d", "e", "f", "a", "u", "l", "t">>

K_fulltitle ==
    <<"f", "u", "l", "l", "t", "i", "t", "l", "e">>

K_fullname ==
    <<"f", "u", "l", "l", "n", "a", "m", "e">>

K_contacttitle ==
    <<"c", "o", "n", "t", "a", "c", "t", "t", "i", "t", "l", "e">>

K_firstname ==
    <<"f", "i", "r", "s", "t", "n", "a", "m", "e">>

K_lastname ==
    <<"l", "a", "s", "t", "n", "a", "m", "e">>

PyTrue ==
    <<"T", "r", "u", "e">>

PyFalse ==
    <<"F", "a", "l", "s", "e">>

\* A raw record is a JSON value as response.json() gives it: None, a str, an
\* int, a bool, a list, or a dict, which keeps the order of its keys: a sequence
\* of [k, v] pairs with distinct keys.
JInt(n) == [t |-> "int", v |-> n]
JBool(b) == [t |-> "bool", v |-> b]
JObj(pairs) == [t |-> "obj", v |-> pairs]

IsObj(j) == j.t = "obj"

\* k in d
Has(d, k) == \E i \in 1..Len(d.v) : d.v[i].k = k

\* d.get(k)
OGet(d, k) ==
    IF Has(d, k) THEN d.v[CHOOSE i \in 1..Len(d.v) : d.v[i].k = k].v ELSE JNone

\* d[k] = val: a key d has keeps its place, a new key goes last
OSet(d, k, val) ==
    IF Has(d, k)
    THEN JObj([i \in 1..Len(d.v) |-> IF d.v[i].k = k THEN [k |-> k, v |-> val] ELSE d.v[i]])
    ELSE JObj(Append(d.v, [k |-> k, v |-> val]))

\* list(d.values())
OValues(d) == [i \in 1..Len(d.v) |-> d.v[i].v]

\* bool(x)
RTruthy(j) ==
    CASE j.t = "none" -> FALSE
      [] j.t = "int" -> j.v # 0
      [] j.t = "bool" -> j.v
      [] OTHER -> j.v # <<>>

\* str(n) of an int n >= 0: its decimal digits
RECURSIVE Decimal(_)
Decimal(n) ==
    LET d == <<"0", "1", "2", "3", "4", "5", "6", "7", "8", "9">>[(n % 10) + 1]
    IN  IF n < 10 THEN <<d>> ELSE Decimal(n \div 10) \o <<d>>

\* str(x) of a key value
RStr(j) ==
    CASE j.t = "str" -> j.v
      [] j.t = "int" -> Decimal(j.v)
      [] j.t = "bool" -> IF j.v THEN PyTrue ELSE PyFalse
      [] j.t = "none" -> PyNone

\* a or b or c read from the last operand to the first
Or3SlugFirst(a, b, c) == IF RTruthy(c) THEN c ELSE IF RTruthy(b) THEN b ELSE a

\* a or b or c
Or3(a, b, c) == IF RTruthy(a) THEN a ELSE IF RTruthy(b) THEN b ELSE c

\* the for loop of lines 31-35 and 124-128: items[i..] put into out under
\* str(id or <rel_key> or slug)
RECURSIVE KeyedLoop(_, _, _, _)
KeyedLoop(items, i, out, rel_key) ==
    IF i > Len(items) THEN out
    ELSE LET item == items[i]
             key == Or3(OGet(item, K_id), OGet(item, rel_key), OGet(item, K_slug))
         IN  IF IsObj(item) /\ key.t # "none"
             THEN KeyedLoop(items, i + 1, OSet(out, RStr(key), item), rel_key)
             ELSE KeyedLoop(items, i + 1, out, rel_key)

\* the field validators with the elements of an array keyed by their position
normalize_relation_by_position(v, rel_key) ==
    IF v.t = "none" \/ v = JObj(<<>>) THEN JNone
    ELSE IF v.t = "list"
    THEN IF v.v = <<>> THEN JNone
         ELSE JObj([i \in 1..Len(v.v) |-> [k |-> Decimal(i - 1), v |-> v.v[i]]])
    ELSE IF v.t = "obj" THEN v
    ELSE JNone

\* the field validators without the tests for an empty container
normalize_relation_keeps_empty(v, rel_key) ==
    IF v.t = "none" THEN JNone
    ELSE IF v.t = "list" THEN KeyedLoop(v.v, 1, JObj(<<>>), rel_key)
    ELSE IF v.t = "obj" THEN v
    ELSE JNone

\* the body the two field validators share, lines 25-39 and 118-132
normalize_relation(v, rel_key) ==
    IF v.t = "none" \/ v = JObj(<<>>) THEN JNone
    ELSE IF v.t = "list"
    THEN IF v.v = <<>> THEN JNone
         ELSE IF KeyedLoop(v.v, 1, JObj(<<>>), rel_key).v # <<>>
         THEN KeyedLoop(v.v, 1, JObj(<<>>), rel_key)
         ELSE JNone
    ELSE IF v.t = "obj" THEN v
    ELSE JNone

\* TicketList.normalize_boards(v)
normalize_boards(v) == normalize_relation(v, K_board_id)

\* Ticket.normalize_lists(v)
normalize_lists(v) == normalize_relation(v, K_list_id)

\* ------------------------------------------------------------ agidesk.py: Ticket

\* the keys of line 84 with title before fulltitle
NameKeysTitleFirst ==
    <<K_title, K_fulltitle, K_fullname, K_contacttitle, K_fullcustomer, K_fullcontact>>

\* lines 84: the keys pick_name reads a name from, in order
NameKeys == <<K_fulltitle, K_title, K_fullname, K_contacttitle, K_fullcustomer, K_fullcontact>>

\* line 77: the element is flagged as the default one
IsDefault(it) ==
    IsObj(it) /\ (OGet(it, K_default) = JStr(<<"1">>) \/ OGet(it, K_default) = JBool(TRUE))

\* pick_name choosing the first element whatever the flags
ChosenFirst(items) == IF IsObj(items[1]) THEN items[1] ELSE JNone

\* lines 75-81: the element pick_name chooses from a non-empty items
Chosen(items) ==
    IF \E i \in 1..Len(items) : IsDefault(items[i])
    THEN items[Least({i \in 1..Len(items) : IsDefault(items[i])})]
    ELSE IF IsObj(items[1]) THEN items[1] ELSE JNone

\* line 86: isinstance(val, str) and val.strip()
IsName(val) == val.t = "str" /\ Strip(val.v) # <<>>

\* lines 88-91: ' '.join of the truthy ones of firstname and lastname, both str
\* or None here: JoinRaises tells when one is not
JoinNames(fn, ln) ==
    IF RTruthy(fn) /\ RTruthy(ln) THEN JStr(fn.v \o <<" ">> \o ln.v)
    ELSE IF RTruthy(fn) THEN fn
    ELSE ln

\* lines 82-92: the name of the chosen element, or None
NameOf(chosen) ==
    IF ~IsObj(chosen) THEN JNone
    ELSE IF \E i \in 1..Len(NameKeys) : IsName(OGet(chosen, NameKeys[i]))
    THEN OGet(chosen, NameKeys[Least({i \in 1..Len(NameKeys) : IsName(OGet(chosen, NameKeys[i]))})])
    ELSE IF RTruthy(OGet(chosen, K_firstname)) \/ RTruthy(OGet(chosen, K_lastname))
    THEN JoinNames(OGet(chosen, K_firstname), OGet(chosen, K_lastname))
    ELSE JNone

\* lines 82-91: the chosen element has no usable name key and a truthy
\* firstname or lastname that is no str, so that ' '.join raises TypeError
JoinRaises(chosen) ==
    /\ IsObj(chosen)
    /\ ~\E i \in 1..Len(NameKeys) : IsName(OGet(chosen, NameKeys[i]))
    /\ \E k \in {K_firstname, K_lastname} :
        RTruthy(OGet(chosen, k)) /\ OGet(chosen, k).t # "str"

\* lines 63-74: the items of the container
ItemsOf(container) ==
    IF container.t = "obj" THEN OValues(container)
    ELSE IF container.t = "list" THEN container.v
    ELSE <<>>

\* pick_name(container), lines 63-92
pick_name(container) ==
    IF ItemsOf(container) = <<>> THEN JNone ELSE NameOf(Chosen(ItemsOf(container)))

\* pick_name(container) raises TypeError
PickRaises(container) ==
    ItemsOf(container) # <<>> /\ JoinRaises(Chosen(ItemsOf(container)))

\* lines 94-95 and 101-102: pick_name is called, and raises
DeriveOneRaises(data, single, many) ==
    (~Has(data, single) \/ ~RTruthy(OGet(data, single))) /\ PickRaises(OGet(data, many))

\* lines 94-99 and 101-106 on the name pick_name gave: data, changed in place
DeriveInto(data, single, full, name) ==
    IF RTruthy(name) THEN OSet(data, single, name)
    ELSE IF OGet(data, full).t = "str" THEN OSet(data, single, OGet(data, full))
    ELSE data

\* lines 94-99 adding the picked name to what data holds under single, given or not
DeriveOneAppending(data, single, many, full) ==
    IF RTruthy(pick_name(OGet(data, many)))
    THEN OSet(data, single,
              JStr((IF OGet(data, single).t = "str" THEN OGet(data, single).v ELSE <<>>)
                   \o pick_name(OGet(data, many)).v))
    ELSE data

DeriveOne(data, single, many, full) ==
    IF ~Has(data, single) \/ ~RTruthy(OGet(data, single))
    THEN DeriveInto(data, single, full, pick_name(OGet(data, many)))
    ELSE data

\* Ticket.derive_customer_contact(data), lines 51-108: the data it returns, which
\* is the object it was given
derive_customer_contact(data) ==
    IF ~IsObj(data) THEN data
    ELSE DeriveOne(DeriveOne(data, K_customer, K_customers, K_fullcustomer),
                   K_contact, K_contacts, K_fullcontact)

\* derive_customer_contact(data) raises TypeError, at the customers or, those
\* passed, at the contacts
DeriveRaises(data) ==
    /\ IsObj(data)
    /\ \/ DeriveOneRaises(data, K_customer, K_customers)
       \/ DeriveOneRaises(DeriveOne(data, K_customer, K_customers, K_fullcustomer),
                          K_contact, K_contacts)

\* a field declared str: pydantic takes a str and nothing else
ReqStr(d, k) == OGet(d, k).t = "str"

\* a field declared Optional[str] = None
OptStr(d, k) == OGet(d, k).t \in {"none", "str"}

\* the value of an Optional field: [some, val], some = FALSE is None
NoneVal == [some |-> FALSE, val |-> <<>>]
SomeVal(x) == [some |-> TRUE, val |-> x]

OptStrOf(d, k) == IF OGet(d, k).t = "str" THEN SomeVal(OGet(d, k).v) ELSE NoneVal

\* Board (lines 12-14): the raw value validates, and the Board it gives
BoardOK(b) == IsObj(b) /\ ReqStr(b, K_id) /\ ReqStr(b, K_title)

BoardOf(b) == [id |-> OGet(b, K_id).v, title |-> OGet(b, K_title).v]

\* the boards of a raw list after normalize_boards, which runs when the key is given
BoardsIn(l) == IF Has(l, K_boards) THEN normalize_boards(OGet(l, K_boards)) ELSE JNone

\* Optional[Dict[str, Board]]: a dict keeps no order for equality
BoardsOf(m) ==
    IF m.t = "none" THEN NoneVal
    ELSE SomeVal([k \in {m.v[i].k : i \in 1..Len(m.v)} |-> BoardOf(OGet(m, k))])

\* TicketList (lines 16-19)
TicketListOK(l) ==
    /\ IsObj(l)
    /\ ReqStr(l, K_id)
    /\ ReqStr(l, K_title)
    /\ \A i \in 1..Len(BoardsIn(l).v) : BoardOK(BoardsIn(l).v[i].v)

TicketListOf(l) ==
    [id |-> OGet(l, K_id).v, title |-> OGet(l, K_title).v, boards |-> BoardsOf(BoardsIn(l))]

\* the lists of a raw ticket after normalize_lists
ListsIn(d) == IF Has(d, K_lists) THEN normalize_lists(OGet(d, K_lists)) ELSE JNone

\* Optional[Dict[str, TicketList]]
ListsOf(m) ==
    IF m.t = "none" THEN NoneVal
    ELSE SomeVal([k \in {m.v[i].k : i \in 1..Len(m.v)} |-> TicketListOf(OGet(m, k))])

\* Ticket (lines 41-49): the data validates after the two validators
TicketOK(d) ==
    /\ IsObj(d)
    /\ ReqStr(d, K_id)
    /\ ReqStr(d, K_title)
    /\ OptStr(d, K_content)
    /\ OptStr(d, K_htmlcontent)
    /\ OptStr(d, K_created_at)
    /\ OptStr(d, K_customer)
    /\ OptStr(d, K_contact)
    /\ \A i \in 1..Len(ListsIn(d).v) : TicketListOK(ListsIn(d).v[i].v)

TicketOf(d) ==
    [id |-> OGet(d, K_id).v,
     title |-> OGet(d, K_title).v,
     content |-> OptStrOf(d, K_content),
     htmlcontent |-> OptStrOf(d, K_htmlcontent),
     created_at |-> OptStrOf(d, K_created_at),
     lists |-> ListsOf(ListsIn(d)),
     customer |-> OptStrOf(d, K_customer),
     contact |-> OptStrOf(d, K_contact)]

NoTicket ==
    [id |-> <<>>, title |-> <<>>, content |-> NoneVal, htmlcontent |-> NoneVal,
     created_at |-> NoneVal, lists |-> NoneVal, customer |-> NoneVal, contact |-> NoneVal]

\* what normalize_boards returned for each list of the normalized lists
BoardsEach(m) ==
    [i \in 1..Len(m.v) |-> IF IsObj(m.v[i].v) THEN BoardsIn(m.v[i].v) ELSE JNone]

\* what validation makes of the data the model validator returned: the Ticket
\* or the ValidationError, the data, and what the field validators
\* normalize_lists and normalize_boards returned on the way
Validated(d) ==
    [st |-> IF TicketOK(d) THEN "ok" ELSE "ValidationError",
     ticket |-> IF TicketOK(d) THEN TicketOf(d) ELSE NoTicket,
     data |-> d,
     lists |-> IF IsObj(d) THEN ListsIn(d) ELSE JNone,
     boards |-> IF IsObj(d) THEN BoardsEach(ListsIn(d)) ELSE <<>>]

\* Ticket.model_validate(obj): the Ticket or the ValidationError, and obj as the
\* call leaves it; pydantic turns the ValueError and AssertionError of a
\* validator into the ValidationError and lets any other exception through
model_validate(obj) ==
    IF DeriveRaises(obj)
    THEN [st |-> "TypeError", ticket |-> NoTicket, data |-> obj, lists |-> JNone, boards |-> <<>>]
    ELSE Validated(derive_customer_contact(obj))

\* ------------------------------------------------------------ the raw records of the model

MaxCalls == 2

Absent == [t |-> "absent", v |-> <<>>]

\* the pair of a key that is given, nothing for one that is not
Field(k, val) == IF val = Absent THEN <<>> ELSE <<[k |-> k, v |-> val]>>

S(c) == JStr(<<c>>)

\* boards
Board9 == JObj(Field(K_id, S("9")) \o Field(K_title, S("s")))
Board7 == JObj(Field(K_id, S("7")) \o Field(K_board_id, S("8")) \o Field(K_title, S("o")))
BoardNoId == JObj(Field(K_board_id, S("9")) \o Field(K_title, S("s")))

\* lists: the options for the boards of list 1 and the elements built on them
BoardsOptions ==
    {Absent, JNone, JList(<<>>), JObj(<<>>), S("x"),
     JList(<<Board9, Board7>>),
     JObj(Field(<<"9">>, Board9) \o Field(<<"7">>, Board7)),
     JList(<<BoardNoId>>),
     JList(<<JObj(Field(K_title, S("n")))>>)}

List1(boards) == JObj(Field(K_id, S("1")) \o Field(K_title, S("A")) \o Field(K_boards, boards))
List2 == JObj(Field(K_id, S("2")) \o Field(K_slug, S("b")) \o Field(K_title, S("B")))
List1Again == JObj(Field(K_id, S("1")) \o Field(K_title, S("C")))
ListByListId == JObj(Field(K_list_id, S("5")) \o Field(K_title, S("D")))
ListBySlug ==
    JObj(Field(K_id, JStr(<<>>)) \o Field(K_list_id, JNone) \o Field(K_slug, S("g"))
         \o Field(K_title, S("E")))
ListIntId == JObj(Field(K_id, JInt(12)) \o Field(K_title, S("F")))
ListNoKey == JObj(Field(K_title, S("G")))

ListsOptions ==
    {Absent, JNone, JList(<<>>), JObj(<<>>), S("x"),
     JList(<<List2, List1Again>>),
     JList(<<List1(Absent), List2, List1Again>>),
     JList(<<ListByListId>>),
     JList(<<List2, ListBySlug>>),
     JList(<<ListIntId>>),
     JList(<<ListNoKey>>),
     JList(<<ListNoKey, S("x"), List2>>)}
    \cup {JList(<<List1(b), List2>>) : b \in BoardsOptions}
    \cup {JObj(Field(<<"1">>, List1(b)) \o Field(<<"2">>, List2)) : b \in BoardsOptions}

\* the elements of customers and contacts
Named(k, name) == JObj(Field(K_id, S("1")) \o Field(k, name))
Ann == <<"A", "n", "n">>
Bob == <<"B", "o", "b">>
Cy == <<"C", "y">>
Di == <<"D", "i">>
Lee == <<"L", "e", "e">>
EntAnn == Named(K_title, JStr(Ann))
EntBobDefault ==
    JObj(Field(K_id, S("2")) \o Field(K_default, S("1")) \o Field(K_title, JStr(Cy))
         \o Field(K_fulltitle, JStr(Bob)))
EntDiLeeTrue ==
    JObj(Field(K_id, S("3")) \o Field(K_default, JBool(TRUE)) \o Field(K_firstname, JStr(Di))
         \o Field(K_lastname, JStr(Lee)))
EntFullname ==
    JObj(Field(K_id, S("4")) \o Field(K_title, S(" ")) \o Field(K_fullname, JStr(Cy)))
EntContactTitle == JObj(Field(K_id, S("5")) \o Field(K_contacttitle, JStr(Di)))
EntDefaultNameless == JObj(Field(K_id, S("6")) \o Field(K_default, S("1")))
EntLastOnly == JObj(Field(K_id, S("7")) \o Field(K_default, S("0")) \o Field(K_lastname, JStr(Lee)))
EntIntDefault ==
    JObj(Field(K_id, S("8")) \o Field(K_default, JInt(1)) \o Field(K_title, JStr(Bob)))
EntPadded == JObj(Field(K_id, S("9")) \o Field(K_title, JStr(<<" ", "D", "i", " ">>)))

EntityLists ==
    {<<EntAnn, EntBobDefault>>,
     <<EntBobDefault, EntAnn>>,
     <<EntAnn, EntFullname>>,
     <<EntFullname, EntAnn>>,
     <<EntAnn, EntDiLeeTrue, EntBobDefault>>,
     <<EntContactTitle>>,
     <<EntAnn, EntDefaultNameless>>,
     <<EntLastOnly, EntAnn>>,
     <<EntAnn, EntIntDefault>>,
     <<EntPadded, EntAnn>>,
     <<EntDefaultNameless>>,
     <<S("x"), EntAnn>>}

\* the same elements as a dict keyed by their ids
RECURSIVE KeyedById(_)
KeyedById(items) ==
    IF items = <<>> THEN <<>>
    ELSE Field(RStr(OGet(Head(items), K_id)), Head(items)) \o KeyedById(Tail(items))

AllObjects(items) == \A i \in 1..Len(items) : IsObj(items[i])

ManyOptions ==
    {Absent, JNone, JList(<<>>), JObj(<<>>)}
    \cup {JList(items) : items \in EntityLists}
    \cup {JObj(KeyedById(items)) : items \in {l \in EntityLists : AllObjects(l)}}

Zed == <<"Z", "e", "d">>
Acme == <<"A", "c", "m", "e">>

\* a raw ticket with the given options; side says whether the entity options
\* are those of the customer or of the contact
RawTicket(id, title, lists, side, single, many, full) ==
    JObj(Field(K_id, id) \o Field(K_title, title) \o Field(K_lists, lists)
         \o Field(IF side = "customer" THEN K_customer ELSE K_contact, single)
         \o Field(IF side = "customer" THEN K_customers ELSE K_contacts, many)
         \o Field(IF side = "customer" THEN K_fullcustomer ELSE K_fullcontact, full))

IdOptions == {Absent, JStr(<<"1", "0", "1">>), JInt(101)}
TitleOptions == {Absent, S("T")}

\* the records search_tickets may hand to Ticket.model_validate: every id,
\* title and lists option with and without a customers relation, every entity
\* option on a ticket with id and title, and three values that are no dict
RawRecords ==
    {RawTicket(id, title, lists, "customer", Absent, many, Absent) :
        id \in IdOptions, title \in TitleOptions, lists \in ListsOptions,
        many \in {Absent, JList(<<EntAnn, EntBobDefault>>)}}
    \cup {RawTicket(JStr(<<"1", "0", "1">>), S("T"), lists, side, single, many, full) :
            lists \in {Absent, JList(<<List2>>)}, side \in {"customer", "contact"},
            single \in {Absent, JStr(Zed), JStr(<<>>)}, many \in ManyOptions,
            full \in {Absent, JStr(Acme)}}
    \cup {JNone, JList(<<>>), S("x")}

\* ------------------------------------------------------------ calls of Ticket.model_validate

\* one more call of Ticket.model_validate on the same raw object
Validate ==
    /\ pc = "normalize"
    /\ Len(results) < MaxCalls
    /\ results' = Append(results, [st |-> model_validate(raw).st,
                                   ticket |-> model_validate(raw).ticket,
                                   lists |-> model_validate(raw).lists,
                                   boards |-> model_validate(raw).boards])
    /\ raw' = model_validate(raw).data
    /\ UNCHANGED <<pc, given, aivars, mainvars, sidevars>>

InitTicket ==
    /\ pc = "normalize"
    /\ raw \in RawRecords
    /\ given = raw
    /\ results = <<>>
    /\ dbg = FALSE
    /\ model_gpt5 = TRUE
    /\ is_gpt5 = Unbound
    /\ reqlog = <<>>
    /\ resp = NoResp
    /\ call = NoCall
    /\ body = <<>>
    /\ pool = {}
    /\ MODE = "development"
    /\ style = "card"
    /\ cycle = 1
    /\ blob = {}
    /\ issues = <<>>
    /\ new_tickets = <<>>
    /\ todo = <<>>
    /\ passed = <<>>
    /\ issue = NoIssue
    /\ posts = <<>>
    /\ comments = <<>>
    /\ ending = "none"
    /\ earlier = {}
    /\ effects = <<>>
    /\ SideIdle

NextTicket == Validate

SpecTicket == InitTicket /\ [][NextTicket]_vars

\* ------------------------------------------------------------ parse_dt_loose

\* the value of a digit character
DigitValue(c) == CHOOSE n \in 0..9 : <<"0", "1", "2", "3", "4", "5", "6", "7", "8", "9">>[n + 1] = c

\* int() of a run of digits
RECURSIVE Number(_)
Number(ds) ==
    IF ds = <<>> THEN 0
    ELSE Number(SubSeq(ds, 1, Len(ds) - 1)) * 10 + DigitValue(ds[Len(ds)])

NoField == [ok |-> FALSE, val |-> 0, next |-> 0]

\* a numeric directive of strptime at position i of s: the run of digits there
\* has between min_len and max_len digits and a value in lo..hi (the separator
\* that follows every directive of the three formats forbids a shorter match)
DigitField(s, i, min_len, max_len, lo, hi) ==
    IF /\ SkipDigits(s, i) - i >= min_len
       /\ SkipDigits(s, i) - i <= max_len
       /\ Number(SubSeq(s, i, SkipDigits(s, i) - 1)) \in lo..hi
    THEN [ok |-> TRUE, val |-> Number(SubSeq(s, i, SkipDigits(s, i) - 1)),
          next |-> SkipDigits(s, i)]
    ELSE NoField

IsLeap(y) == (y % 4 = 0 /\ y % 100 # 0) \/ y % 400 = 0

DaysInMonth(y, m) ==
    IF m = 2 THEN (IF IsLeap(y) THEN 29 ELSE 28)
    ELSE IF m \in {4, 6, 9, 11} THEN 30 ELSE 31

\* days from 1970-01-01 to y-m-d in the proleptic Gregorian calendar
DaysFromCivil(y, m, d) ==
    LET yy == IF m <= 2 THEN y - 1 ELSE y
        era == yy \div 400
        yoe == yy - era * 400
        doy == (153 * (IF m > 2 THEN m - 3 ELSE m + 9) + 2) \div 5 + d - 1
        doe == yoe * 365 + yoe \div 4 - yoe \div 100 + doy
    IN  era * 146097 + doe - 719468

\* an instant in UTC: the day and the second of the day
Instant(days, secs) == [day |-> days + (secs \div 86400), sec |-> secs % 86400]

NoMatch == [ok |-> FALSE, day |-> 0, sec |-> 0, next |-> 0]

\* "%Y-%m-%d" sep "%H:%M:%S" from the start of s, where sep is a run of
\* whitespace (the blank of the first format) or the letter T, upper or lower
\* case (strptime ignores case); a date that does not exist is a ValueError
DateTimeAt(s, blank_sep) ==
    LET y == DigitField(s, 1, 4, 4, 1, 9999)
        mo == DigitField(s, y.next + 1, 1, 2, 1, 12)
        d == DigitField(s, mo.next + 1, 1, 2, 1, 31)
        h_at == IF blank_sep THEN SkipWS(s, d.next) ELSE d.next + 1
        h == DigitField(s, h_at, 1, 2, 0, 23)
        mi == DigitField(s, h.next + 1, 1, 2, 0, 59)
        sc == DigitField(s, mi.next + 1, 1, 2, 0, 59)
    IN  IF /\ y.ok /\ At(s, y.next) = "-"
           /\ mo.ok /\ At(s, mo.next) = "-"
           /\ d.ok /\ d.val <= DaysInMonth(y.val, mo.val)
           /\ IF blank_sep THEN At(s, d.next) \in WS ELSE At(s, d.next) \in {"T", "t"}
           /\ h.ok /\ At(s, h.next) = ":"
           /\ mi.ok /\ At(s, mi.next) = ":"
           /\ sc.ok
        THEN [ok |-> TRUE, day |-> DaysFromCivil(y.val, mo.val, d.val),
              sec |-> h.val * 3600 + mi.val * 60 + sc.val, next |-> sc.next]
        ELSE NoMatch

NoOffset == [ok |-> FALSE, minutes |-> 0]

\* the two digits \d\d at positions i and i + 1 of s
TwoDigits(s, i) ==
    IF At(s, i) \in Digits /\ At(s, i + 1) \in Digits
    THEN [ok |-> TRUE, val |-> Number(SubSeq(s, i, i + 1)), next |-> i + 2]
    ELSE NoField

\* "%z" from position i to the end of s: Z, or a sign, two digits of hours, an
\* optional colon and two digits of minutes; 24 hours and more are a
\* ValueError (offsets with seconds are not among the stamps of the model)
OffsetAt(s, i) ==
    LET hh == TwoDigits(s, i + 1)
        m_at == IF At(s, i + 3) = ":" THEN i + 4 ELSE i + 3
        mm == TwoDigits(s, m_at)
    IN  IF At(s, i) = "Z" /\ i = Len(s) THEN [ok |-> TRUE, minutes |-> 0]
        ELSE IF /\ At(s, i) \in {"+", "-"}
                /\ hh.ok
                /\ mm.ok
                /\ mm.val <= 59
                /\ mm.next = Len(s) + 1
                /\ hh.val * 60 + mm.val < 1440
        THEN [ok |-> TRUE,
              minutes |-> IF At(s, i) = "-" THEN 0 - (hh.val * 60 + mm.val)
                          ELSE hh.val * 60 + mm.val]
        ELSE NoOffset

None_dt == [some |-> FALSE, val |-> Instant(0, 0)]
Some_dt(i) == [some |-> TRUE, val |-> i]

\* the for loop of lines 92-99 on the stripped s: the first of the three
\* formats that matches all of s decides; a naive datetime is taken as UTC, an
\* aware one is converted
FirstFormat(s) ==
    IF DateTimeAt(s, TRUE).ok /\ DateTimeAt(s, TRUE).next = Len(s) + 1
    THEN Some_dt(Instant(DateTimeAt(s, TRUE).day, DateTimeAt(s, TRUE).sec))
    ELSE IF /\ DateTimeAt(s, FALSE).ok
            /\ DateTimeAt(s, FALSE).next = Len(s)
            /\ At(s, Len(s)) \in {"Z", "z"}
    THEN Some_dt(Instant(DateTimeAt(s, FALSE).day, DateTimeAt(s, FALSE).sec))
    ELSE IF DateTimeAt(s, FALSE).ok /\ OffsetAt(s, DateTimeAt(s, FALSE).next).ok
    THEN Some_dt(Instant(DateTimeAt(s, FALSE).day,
                         DateTimeAt(s, FALSE).sec
                            - 60 * OffsetAt(s, DateTimeAt(s, FALSE).next).minutes))
    ELSE None_dt

\* parse_dt_loose(s), lines 88-100
parse_dt_loose(s) == IF s = <<>> THEN None_dt ELSE FirstFormat(Strip(s))

\* ------------------------------------------------------------ the stamps of the model

DigitChar(n) == <<"0", "1", "2", "3", "4", "5", "6", "7", "8", "9">>[n + 1]

\* strftime's %m, %d, %H, %M, %S and %Y
Pad2(n) == <<DigitChar(n \div 10), DigitChar(n % 10)>>
Pad4(n) == Pad2(n \div 100) \o Pad2(n % 100)

Dates == {<<2025, 8, 21>>, <<2024, 2, 29>>, <<2025, 12, 31>>, <<2025, 2, 30>>}
Times == {<<14, 10, 0>>, <<0, 0, 0>>, <<23, 59, 59>>, <<24, 0, 0>>}

DateText(d) == Pad4(d[1]) \o <<"-">> \o Pad2(d[2]) \o <<"-">> \o Pad2(d[3])
TimeText(t) == Pad2(t[1]) \o <<":">> \o Pad2(t[2]) \o <<":">> \o Pad2(t[3])

\* the ways a stamp is written: the separator, what follows the seconds, and
\* the offset in minutes it states ("naive": none is stated)
Forms ==
    {[name |-> "plain", sep |-> <<" ">>, tail |-> <<>>, offset |-> 0],
     [name |-> "padded", sep |-> <<" ">>, tail |-> <<" ">>, offset |-> 0],
     [name |-> "iso_z", sep |-> <<"T">>, tail |-> <<"Z">>, offset |-> 0],
     [name |-> "iso_plus", sep |-> <<"T">>, tail |-> <<"+", "0", "3", ":", "0", "0">>, offset |-> 180],
     [name |-> "iso_minus", sep |-> <<"T">>, tail |-> <<"-", "0", "3", "3", "0">>, offset |-> 0 - 210],
     [name |-> "iso_naive", sep |-> <<"T">>, tail |-> <<>>, offset |-> 0],
     [name |-> "iso_fraction", sep |-> <<"T">>, tail |-> <<".", "5", "Z">>, offset |-> 0],
     [name |-> "blank_offset", sep |-> <<" ">>, tail |-> <<"+", "0", "3", ":", "0", "0">>, offset |-> 180],
     [name |-> "date_only", sep |-> <<>>, tail |-> <<>>, offset |-> 0]}

Written(d, t, f) ==
    IF f.name = "date_only" THEN DateText(d)
    ELSE IF f.name = "padded" THEN <<" ">> \o DateText(d) \o f.sep \o TimeText(t) \o f.tail
    ELSE DateText(d) \o f.sep \o TimeText(t) \o f.tail

Stamps ==
    {Written(d, t, f) : d \in Dates, t \in Times, f \in Forms}
    \cup {<<>>, <<" ">>, <<"n", "o", "w">>}

\* one call of parse_dt_loose
ParseStamp ==
    /\ pc = "parse"
    /\ instant.st = "none"
    /\ instant' = [st |-> "returned", some |-> parse_dt_loose(stamp).some,
                   val |-> parse_dt_loose(stamp).val]
    /\ UNCHANGED <<pc, stamp, aivars, mainvars, tkvars, wmvars, srvars>>

MainIdle ==
    /\ dbg = FALSE
    /\ model_gpt5 = TRUE
    /\ is_gpt5 = Unbound
    /\ reqlog = <<>>
    /\ resp = NoResp
    /\ call = NoCall
    /\ body = <<>>
    /\ pool = {}
    /\ MODE = "development"
    /\ style = "card"
    /\ cycle = 1
    /\ blob = {}
    /\ issues = <<>>
    /\ new_tickets = <<>>
    /\ todo = <<>>
    /\ passed = <<>>
    /\ issue = NoIssue
    /\ posts = <<>>
    /\ comments = <<>>
    /\ ending = "none"
    /\ earlier = {}
    /\ effects = <<>>

TicketIdle ==
    /\ raw = JNone
    /\ given = JNone
    /\ results = <<>>

InitStamp ==
    /\ pc = "parse"
    /\ stamp \in Stamps
    /\ instant = NoParse
    /\ last_seen = 0
    /\ watermark = 0
    /\ persisted = <<>>
    /\ tickets = <<>>
    /\ round = 0
    /\ response = [kind |-> "none"]
    /\ searched = NoFound
    /\ MainIdle
    /\ TicketIdle

NextStamp == ParseStamp

SpecStamp == InitStamp /\ [][NextStamp]_vars
\* ------------------------------------------------------------ AgideskAPI.search_tickets

MaxRecords == 2

Id102 == JStr(<<"1", "0", "2">>)

\* an element whose first name is a JSON number
EntNumberName == JObj(Field(K_id, S("3")) \o Field(K_firstname, JInt(5)))

\* the raw records of a response: two that validate, one without title and one
\* with a numeric id, which pydantic rejects, one whose contact has a number
\* for a first name, and one that is no object
SearchRecords ==
    {RawTicket(JStr(<<"1", "0", "1">>), S("T"), JList(<<List2>>), "customer", Absent, Absent, Absent),
     RawTicket(Id102, S("T"), Absent, "customer", Absent, JList(<<EntAnn>>), Absent),
     RawTicket(Id102, Absent, Absent, "customer", Absent, Absent, Absent),
     RawTicket(JInt(101), S("T"), Absent, "customer", Absent, Absent, Absent),
     RawTicket(Id102, S("T"), Absent, "contact", Absent, JList(<<EntNumberName>>), Absent),
     S("x")}

\* the records as the values of a dict keyed by position
RECURSIVE KeyedByPosition(_)
KeyedByPosition(items) ==
    IF items = <<>> THEN <<>>
    ELSE KeyedByPosition(SubSeq(items, 1, Len(items) - 1))
         \o Field(Decimal(Len(items)), items[Len(items)])

\* what response.json() may give: a list of records, a dict of records, one
\* record, or a value that is neither
Payloads ==
    {JList(rs) : rs \in SeqsUpTo(SearchRecords, MaxRecords)}
    \cup {JObj(KeyedByPosition(rs)) : rs \in SeqsUpTo(SearchRecords, MaxRecords)}
    \cup {r \in SearchRecords : IsObj(r)}
    \cup {JNone, S("x"), JInt(0)}

NotJson == [t |-> "not_json", v |-> <<>>]

\* what requests.get does: it raises, or answers with a status and a body;
\* log_ok tells whether api_responses.log could be opened and written
Responses ==
    {[kind |-> "request_exception", log_ok |-> TRUE, status_ok |-> FALSE, json |-> NotJson]}
    \cup [kind : {"answer"}, log_ok : BOOLEAN, status_ok : BOOLEAN, json : {NotJson}]
    \cup [kind : {"answer"}, log_ok : {TRUE}, status_ok : BOOLEAN, json : Payloads]
    \cup [kind : {"answer"}, log_ok : {FALSE}, status_ok : {TRUE}, json : {JList(<<>>)}]

\* lines 168-172: the records of a dict answer
DictRecords(tickets_data) ==
    IF \A i \in 1..Len(tickets_data.v) :
            IsObj(tickets_data.v[i].v) /\ Has(tickets_data.v[i].v, K_id)
    THEN OValues(tickets_data)
    ELSE <<tickets_data>>

\* lines 168-176: the list the comprehension runs over; a value that is no
\* list has none
IsRecords(tickets_data) == tickets_data.t \in {"obj", "list"}

RecordsOf(tickets_data) ==
    IF IsObj(tickets_data) THEN DictRecords(tickets_data)
    ELSE IF tickets_data.t = "list" THEN tickets_data.v
    ELSE <<>>

Returned(ts) == [st |-> "returned", tickets |-> ts]
Raised(exc) == [st |-> exc, tickets |-> <<>>]

\* line 178: the comprehension ends at the first record that does not
\* validate, with that record's exception; ValidationError is a ValueError
\* (lines 184-186), a TypeError is caught by nothing
ValidateAll(records) ==
    IF \A i \in 1..Len(records) : model_validate(records[i]).st = "ok"
    THEN Returned([i \in 1..Len(records) |-> model_validate(records[i]).ticket])
    ELSE LET bad == Least({i \in 1..Len(records) : model_validate(records[i]).st # "ok"})
         IN  IF model_validate(records[bad]).st = "ValidationError"
             THEN Returned(<<>>)
             ELSE Raised(model_validate(records[bad]).st)

\* search_tickets(**kwargs), lines 147-186
search_tickets(r) ==
    IF r.kind = "request_exception" THEN Returned(<<>>)
    ELSE IF ~r.log_ok THEN Raised("OSError")
    ELSE IF ~r.status_ok THEN Returned(<<>>)
    ELSE IF r.json = NotJson THEN Returned(<<>>)
    ELSE IF ~IsRecords(r.json) THEN Returned(<<>>)
    ELSE ValidateAll(RecordsOf(r.json))

SearchTickets ==
    /\ pc = "search"
    /\ searched' = search_tickets(response)
    /\ pc' = "searched"
    /\ UNCHANGED response
    /\ UNCHANGED <<aivars, mainvars, tkvars, dtvars, wmvars>>

InitSearch ==
    /\ pc = "search"
    /\ response \in Responses
    /\ searched = NoFound
    /\ stamp = <<>>
    /\ instant = NoParse
    /\ last_seen = 0
    /\ watermark = 0
    /\ persisted = <<>>
    /\ tickets = <<>>
    /\ round = 0
    /\ MainIdle
    /\ TicketIdle

NextSearch == SearchTickets

SpecSearch == InitSearch /\ [][NextSearch]_vars
\* ------------------------------------------------------------ test/main.py: main_loop

\* updated_at stamps are written in one ISO format, so that their order as
\* strings is their order in time: the model numbers them 0..MaxTime
MaxTime == 3
MaxBatch == 2
MaxRounds == 2
\* line 319: the search window starts 60 seconds before last_seen, one unit here
WindowBack == 1

\* a ticket of the dataset: its updated_at and whether agi_already_processed
\* finds the router:processed tag or form field on it
DatasetTickets == [updated_at : 0..MaxTime, done : BOOLEAN]

\* sorted(tickets, key=updated_at): a stable insertion sort
RECURSIVE InsertByUpdated(_, _)
InsertByUpdated(t, sorted) ==
    IF sorted = <<>> THEN <<t>>
    ELSE IF t.updated_at < Head(sorted).updated_at THEN <<t>> \o sorted
    ELSE <<Head(sorted)>> \o InsertByUpdated(t, Tail(sorted))

RECURSIVE SortedByUpdated(_)
SortedByUpdated(ts) ==
    IF ts = <<>> THEN <<>>
    ELSE InsertByUpdated(ts[Len(ts)], SortedByUpdated(SubSeq(ts, 1, Len(ts) - 1)))

\* what agi_fetch_recent_tickets may return for the window that starts at
\* initial: up to MaxBatch tickets updated in it
Batches(initial) ==
    {b \in SeqsUpTo(DatasetTickets, MaxBatch) :
        \A i \in 1..Len(b) : b[i].updated_at >= initial}

\* persist_watermark(ts_iso), lines 51-53
persist_watermark(ts_iso) ==
    /\ watermark' = ts_iso
    /\ persisted' = Append(persisted, ts_iso)

Max2(a, b) == IF a >= b THEN a ELSE b

\* lines 319-323: the fetch of a round, which may raise (line 355)
Poll ==
    /\ pc = "poll"
    /\ \/ \E b \in Batches(last_seen - WindowBack) :
             /\ tickets' = SortedByUpdated(b)
             /\ pc' = "each"
       \/ /\ tickets' = <<>>
          /\ pc' = "sleep"
    /\ UNCHANGED <<last_seen, watermark, persisted, round>>
    /\ UNCHANGED <<aivars, mainvars, tkvars, dtvars, srvars>>

\* lines 325-353: one ticket of the for loop: the already-processed branch,
\* the normal branch, or an exception on the way, which ends the for loop
EachTicket ==
    /\ pc = "each"
    /\ tickets # <<>>
    /\ \/ /\ Head(tickets).done
          /\ last_seen' = Head(tickets).updated_at
          /\ persist_watermark(Head(tickets).updated_at)
          /\ tickets' = Tail(tickets)
          /\ pc' = "each"
       \/ /\ ~Head(tickets).done
          /\ last_seen' = Max2(last_seen, Head(tickets).updated_at)
          /\ persist_watermark(Max2(last_seen, Head(tickets).updated_at))
          /\ tickets' = Tail(tickets)
          /\ pc' = "each"
       \/ /\ ~Head(tickets).done
          /\ tickets' = <<>>
          /\ pc' = "sleep"
          /\ UNCHANGED <<last_seen, watermark, persisted>>
    /\ UNCHANGED round
    /\ UNCHANGED <<aivars, mainvars, tkvars, dtvars, srvars>>

\* the for loop is over
BatchDone ==
    /\ pc = "each"
    /\ tickets = <<>>
    /\ pc' = "sleep"
    /\ UNCHANGED wmvars
    /\ UNCHANGED <<aivars, mainvars, tkvars, dtvars, srvars>>

\* lines 355-361: the sleep, then the next round of while True
NextRound ==
    /\ pc = "sleep"
    /\ round < MaxRounds
    /\ round' = round + 1
    /\ pc' = "poll"
    /\ UNCHANGED <<last_seen, watermark, persisted, tickets>>
    /\ UNCHANGED <<aivars, mainvars, tkvars, dtvars, srvars>>

\* line 315: last_seen is the loaded watermark, or one hour ago
InitLoop ==
    /\ pc = "poll"
    /\ last_seen \in 0..MaxTime
    /\ watermark = last_seen
    /\ persisted = <<>>
    /\ tickets = <<>>
    /\ round = 1
    /\ stamp = <<>>
    /\ instant = NoParse
    /\ response = [kind |-> "none"]
    /\ searched = NoFound
    /\ MainIdle
    /\ TicketIdle

NextLoop ==
    \/ Poll
    \/ EachTicket
    \/ BatchDone
    \/ NextRound

SpecLoop == InitLoop /\ [][NextLoop]_vars
\* ------------------------------------------------------------ values the properties name

\* 'Check logs'
CheckLogs ==
    <<"C", "h", "e", "c", "k", " ", "l", "o", "g", "s">>

\* 'Restart service'
RestartService ==
    <<"R", "e", "s", "t", "a", "r", "t", " ", "s", "e", "r", "v", "i", "c", "e">>

\* 'VPN down'
VPNDown ==
    <<"V", "P", "N", " ", "d", "o", "w", "n">>

\* 'Restart'
Restart ==
    <<"R", "e", "s", "t", "a", "r", "t">>

\* 'provenance'
K_provenance ==
    <<"p", "r", "o", "v", "e", "n", "a", "n", "c", "e">>

\* 'schema_validated'
SchemaValidated ==
    <<"s", "c", "h", "e", "m", "a", "_", "v", "a", "l", "i", "d", "a", "t", "e", "d">>

\* 'free_text_parsed'
FreeTextParsed ==
    <<"f", "r", "e", "e", "_", "t", "e", "x", "t", "_", "p", "a", "r", "s", "e", "d">>

\* 'free_text_heuristic'
FreeTextHeuristic ==
    <<"f", "r", "e", "e", "_", "t", "e", "x", "t", "_", "h", "e", "u", "r", "i", "s", "t",
      "i", "c">>

\* 'error'
ProvError ==
    <<"e", "r", "r", "o", "r">>

\* 'Error'
ErrorWord ==
    <<"E", "r", "r", "o", "r">>

\* ------------------------------------------------------------ properties

Placeholder == Dict2(ErrProcess, NA)

StrField(j, k) == IsDict(j) /\ k \in Keys(j) /\ j.v[k].t = "str"

ListOf(j) == Get(j, K_sugestao_solucao_lista, JNone)

Formats == [i \in 1..Len(reqlog) |-> reqlog[i].req.format]

\* C1: call_openai_simplified never raises: every call ends by returning a
\* summary dict, and the failure paths return the error placeholder.
C1_NeverRaises ==
    pc = "ai_done" =>
        /\ call.st = "returned"
        /\ IsDict(call.val)
        /\ (call.site = "error" => call.val = Placeholder)

\* C2: whatever the generation requests for one ticket do, the loop of main
\* passes every ticket of new_tickets to process_issue and reaches the save of
\* the processed ids.
C2_CycleProcessesEveryNewTicket ==
    (pc = "cycle_end" /\ ending # "bad_mode") =>
        /\ passed = IdSeq(new_tickets)
        /\ ending \in {"saved", "save_failed", "not_saved"}

\* C3: the requests of one call follow the linear cascade: each of the two
\* stages is requested at most once and no json_schema request follows a text
\* request.
C3_LinearCascade ==
    /\ Cardinality({i \in 1..Len(reqlog) : Formats[i] = "json_schema"}) <= 1
    /\ Cardinality({i \in 1..Len(reqlog) : Formats[i] = "text"}) <= 1
    /\ \A i, j \in 1..Len(reqlog) :
        (i < j /\ Formats[i] = "text") => Formats[j] # "json_schema"

\* C4: when the json_schema request fails with an HTTP error, a text request
\* with the same instructions and input is issued, and when that one is
\* answered the call returns the summary derived from the text.
C4_TextRequestAfterSchemaHttpError ==
    (pc = "ai_done" /\ reqlog[1].status = "http_error") =>
        \E k \in 2..Len(reqlog) :
            /\ reqlog[k].req.format = "text"
            /\ reqlog[k].req.system = reqlog[1].req.system
            /\ reqlog[k].req.input = reqlog[1].req.input
            /\ reqlog[k].status = "ok" => (call.st = "returned" /\ call.site # "error")
            /\ (k = Len(reqlog) /\ resp.kind = "ok" /\ resp.text = TxtNumbered) =>
                /\ call.st = "returned"
                /\ ListOf(call.val) = JList(Strs(<<CheckLogs, RestartService>>))

\* C5: when every request of the call fails (transport, authentication,
\* timeout), the call returns the placeholder summary, whose two fields are
\* non-empty strings, and raises nothing.
C5_PlaceholderWhenAllRequestsFail ==
    (pc = "ai_done" /\ \A i \in 1..Len(reqlog) : reqlog[i].status # "ok") =>
        /\ call.st = "returned"
        /\ call.val = Placeholder
        /\ StrField(call.val, K_resumo_problema) /\ call.val.v[K_resumo_problema].v # <<>>
        /\ StrField(call.val, K_sugestao_solucao) /\ call.val.v[K_sugestao_solucao].v # <<>>

\* the three fields of the summary
SummaryKeys == {K_resumo_problema, K_sugestao_solucao, K_sugestao_solucao_lista}

\* the JSON the model answered the json_schema request with, when resp is that answer
Answered == resp.kind = "ok" /\ resp.shape \in {"message", "output_text"} /\ json_loads(resp.text).ok

Answer == json_loads(resp.text).val

\* the answer has the three required fields with the types of the schema
HasThreeFields(j) ==
    /\ IsDict(j)
    /\ SummaryKeys \subseteq Keys(j)
    /\ j.v[K_resumo_problema].t = "str"
    /\ j.v[K_sugestao_solucao].t = "str"
    /\ j.v[K_sugestao_solucao_lista].t = "list"

\* the call has returned from the json_schema request of the try block with the
\* three fields of j
ReturnedAtSchema(j) ==
    /\ pc = "ai_done"
    /\ call.st = "returned"
    /\ call.site = "schema"
    /\ \A k \in SummaryKeys : k \in Keys(call.val) /\ call.val.v[k] = j.v[k]

\* C6 as stated: a json_schema answer with the three required fields is
\* returned verbatim from the schema stage, whatever the values of the fields,
\* and no text request is issued.
C6_ThreeFieldsReturnedVerbatim ==
    (Len(reqlog) = 1 /\ Answered /\ HasThreeFields(Answer)) => ReturnedAtSchema(Answer)

\* what post_and_parse made of the answer to the json_schema request
SchemaResult == post_and_parse(resp).val

HasSchemaResult ==
    Len(reqlog) = 1 /\ post_and_parse(resp).st = "return" /\ IsDict(SchemaResult)

AcceptedAtOnce == pc = "ai_done" /\ call.st = "returned" /\ call.site = "schema"

\* C7 as stated: the result of the json_schema request is accepted, and
\* returned at once, if and only if its resumo_problema is a non-empty string
\* that does not begin with the word "Error"; otherwise the text request is next.
C7_AcceptedIffNotErrorWord ==
    HasSchemaResult =>
        IF /\ StrField(SchemaResult, K_resumo_problema)
           /\ SchemaResult.v[K_resumo_problema].v # <<>>
           /\ ~StartsWith(SchemaResult.v[K_resumo_problema].v, ErrorWord)
        THEN AcceptedAtOnce
        ELSE pc = "text_fallback"

\* C7 amended: the result is accepted, and returned at once, if and only if
\* str() of its resumo_problema (a missing one counting as ""), stripped of
\* white space, is non-empty and does not begin with "Error:"; otherwise the
\* text request is next.
C7_AcceptedIffStrippedNotErrorColon ==
    HasSchemaResult =>
        IF /\ Strip(PyStr(Get(SchemaResult, K_resumo_problema, JStr(<<>>)))) # <<>>
           /\ ~StartsWith(Strip(PyStr(Get(SchemaResult, K_resumo_problema, JStr(<<>>)))),
                          ErrPrefix)
        THEN AcceptedAtOnce
        ELSE pc = "text_fallback"

\* a resumo_problema that begins with the word Error, without the colon, has
\* been accepted
C7_Witness ==
    /\ HasSchemaResult
    /\ resp.text = JsonErrorWord
    /\ AcceptedAtOnce
    /\ StartsWith(call.val.v[K_resumo_problema].v, ErrorWord)

\* the last request of the call was a text request and resp is its answer
TextAnswered ==
    /\ pc = "ai_done"
    /\ reqlog # <<>>
    /\ reqlog[Len(reqlog)].req.format = "text"
    /\ resp.kind = "ok"
    /\ resp.shape \in {"message", "output_text"}

TextSites == {"text_fallback", "text_fallback_compat_token", "text_fallback_http_error"}

DebugKeys == {K_debug_meta, K_debug_response_excerpt}

\* the list the summary takes from a parsed object
ListOrEmpty(j) ==
    IF K_sugestao_solucao_lista \in Keys(j) /\ Truthy(j.v[K_sugestao_solucao_lista])
    THEN j.v[K_sugestao_solucao_lista]
    ELSE JList(<<>>)

\* C8: when the answer to the text request parses as a JSON object, the call
\* returns from the text stage with the fields of that object, the list
\* defaulting to the empty list, and not with lines of the text as items.
C8_ParsedObjectIsTheSummary ==
    (TextAnswered /\ json_loads(resp.text).ok /\ IsDict(Answer)) =>
        /\ call.st = "returned"
        /\ call.site \in TextSites
        /\ Keys(call.val) \ DebugKeys =
           (Keys(Answer) \cup {K_sugestao_solucao_lista}) \ DebugKeys
        /\ \A k \in Keys(Answer) \ (DebugKeys \cup {K_sugestao_solucao_lista}) :
            call.val.v[k] = Answer.v[k]
        /\ ListOf(call.val) = ListOrEmpty(Answer)

\* the object without a list has come back from a text request with the empty list
C8_Witness ==
    /\ TextAnswered
    /\ resp.text = JsonNoList
    /\ call.site = "text_fallback"
    /\ call.val.v[K_resumo_problema] = JStr(<<"x">>)
    /\ call.val.v[K_sugestao_solucao] = JStr(<<"y">>)
    /\ ListOf(call.val) = JList(<<>>)

\* a list line: a marker (one bullet character, or digits and then . or ) ),
\* white space, and a rest that starts at position r
RestAt(line, r) ==
    \E m \in 1..Len(line) :
        /\ \/ m = 1 /\ line[1] \in BulletChars
           \/ m > 1 /\ line[m] \in {".", ")"} /\ \A d \in 1..(m - 1) : line[d] \in Digits
        /\ r > m + 1
        /\ r <= Len(line)
        /\ \A w \in (m + 1)..(r - 1) : line[w] \in WS
        /\ line[r] \notin WS

IsListLine(line) == \E r \in 1..Len(line) : RestAt(line, r)

ItemOf(line) == SubSeq(line, CHOOSE r \in 1..Len(line) : RestAt(line, r), Len(line))

\* the lines of txt, stripped
StrippedLines(txt) == [i \in 1..Len(SplitLines(txt)) |-> Strip(SplitLines(txt)[i])]

\* the positions of the list lines whose item no earlier list line has
FirstOccurrences(ls) ==
    {i \in 1..Len(ls) :
        /\ IsListLine(ls[i])
        /\ \A j \in 1..(i - 1) : IsListLine(ls[j]) => ItemOf(ls[j]) # ItemOf(ls[i])}

\* its is the items of the list lines of ls, each once, in the order of their
\* first occurrence, cut after MaxItems
ItemsOfLines(its, ls) ==
    /\ Len(its) = IF Cardinality(FirstOccurrences(ls)) < MaxItems
                  THEN Cardinality(FirstOccurrences(ls)) ELSE MaxItems
    /\ \A k \in 1..Len(its) :
        \E i \in FirstOccurrences(ls) :
            /\ Cardinality({j \in FirstOccurrences(ls) : j < i}) = k - 1
            /\ its[k] = JStr(ItemOf(ls[i]))

\* the summary the heuristic stage makes of a text
HeuristicSummary(txt) ==
    /\ call.st = "returned"
    /\ call.site \in TextSites
    /\ SummaryKeys \subseteq Keys(call.val)
    /\ call.val.v[K_resumo_problema] = JStr(txt)
    /\ call.val.v[K_sugestao_solucao] = JStr(<<>>)
    /\ call.val.v[K_sugestao_solucao_lista].t = "list"
    /\ ItemsOfLines(call.val.v[K_sugestao_solucao_lista].v, StrippedLines(txt))

\* C9 as stated: when the answer to the text request is not parseable as
\* structured data, the summary has the entire returned text as
\* resumo_problema, an empty sugestao_solucao, and as items the list lines of
\* the text without their markers, each once, in order, at most 20.
C9_HeuristicOnEntireText ==
    (TextAnswered /\ ~extract_structured_from_text(resp.text).some) =>
        HeuristicSummary(resp.text)

\* C9 amended: the same of the returned text as the code takes it from the
\* answer: stripped of surrounding white space when it is the text part of an
\* output message, as it is when it is the output_text of the answer; a list
\* line is a stripped line that starts with a marker followed by white space.
C9_HeuristicOnStrippedText ==
    (TextAnswered /\ ~extract_structured_from_text(resp.text).some) =>
        HeuristicSummary(IF resp.shape = "message" THEN Strip(resp.text) ELSE resp.text)

\* a text of more than MaxItems bullet lines has come back as MaxItems items
C9_Witness ==
    /\ TextAnswered
    /\ resp.text = TxtMany
    /\ call.st = "returned"
    /\ Len(call.val.v[K_sugestao_solucao_lista].v) = MaxItems
    /\ call.val.v[K_sugestao_solucao_lista].v[MaxItems] = JStr(Item(MaxItems))

\* C10: every summary the call returns carries a provenance value, one of
\* schema_validated, free_text_parsed, free_text_heuristic and error.
C10_SummaryCarriesProvenance ==
    (pc = "ai_done" /\ call.st = "returned") =>
        /\ StrField(call.val, K_provenance)
        /\ call.val.v[K_provenance].v \in
            {SchemaValidated, FreeTextParsed, FreeTextHeuristic, ProvError}

\* the summary a consumer finds in d under its list of keys
Found(d, keys) == FirstKey(d, keys) # 0

ValueFound(d, keys) == d.v[keys[FirstKey(d, keys)]]

\* C11: the cascade's validity check, the Teams card and the Agidesk comment
\* look the summary up under the same keys in the same order, so a result that
\* carries a usable problem summary under any key the card accepts is accepted
\* by the cascade as well.
C11_SameSynonymsAtEverySite ==
    /\ CardResumoKeys = CommentResumoKeys
    /\ CardSugestaoKeys = CommentSugestaoKeys
    /\ (/\ HasSchemaResult
        /\ Found(SchemaResult, CardResumoKeys)
        /\ ValueFound(SchemaResult, CardResumoKeys).t = "str"
        /\ Strip(ValueFound(SchemaResult, CardResumoKeys).v) # <<>>
        /\ ~StartsWith(Strip(ValueFound(SchemaResult, CardResumoKeys).v), ErrPrefix))
            => (AcceptedAtOnce /\ Found(SchemaResult, ValidResumoKeys))


\* ------------------------------------------------------------ Ticket.model_validate

\* Ticket.model_validate has returned or raised at least once
Called == Len(results) >= 1

\* the string form the contract gives a source id: the string itself or the
\* decimal digits of the number
IdText(j) == IF j.t = "int" THEN Decimal(j.v) ELSE j.v

\* C12: Ticket.model_validate never raises for a raw record that is a map,
\* whatever fields the record omits and whichever shape its relations take.
C12_NeverRaisesForAMap ==
    (Called /\ IsObj(given)) => results[1].st = "ok"

\* C13: after normalization the id and the title of the Ticket are present,
\* non-empty strings: a numeric source id appears in its string form, a string
\* id as it is, and an id or title the raw record omits is replaced by a
\* placeholder. The relations are left out (lists absent) so that only id and
\* title decide.
C13_IdAndTitleAlwaysPresent ==
    (Called /\ IsObj(given) /\ ~Has(given, K_lists))
        => /\ results[1].st = "ok"
           /\ results[1].ticket.id # <<>>
           /\ results[1].ticket.title # <<>>
           /\ Has(given, K_id) => results[1].ticket.id = IdText(OGet(given, K_id))
           /\ Has(given, K_title) => results[1].ticket.title = OGet(given, K_title).v

\* an array whose elements are objects that carry an id field, no two the same id
CarriesIds(rel) ==
    rel.t = "list" =>
        /\ \A i \in 1..Len(rel.v) : IsObj(rel.v[i]) /\ Has(rel.v[i], K_id)
        /\ \A i, j \in 1..Len(rel.v) :
              RStr(OGet(rel.v[i], K_id)) = RStr(OGet(rel.v[j], K_id)) => i = j

\* ... and every id is a non-empty string or a number other than 0
CarriesUsableIds(rel) ==
    /\ CarriesIds(rel)
    /\ rel.t = "list" => \A i \in 1..Len(rel.v) : RTruthy(OGet(rel.v[i], K_id))

\* the same relation data as a map keyed by the ids of its elements
AsMap(rel) == IF rel.t = "list" THEN JObj(KeyedById(rel.v)) ELSE rel

\* a raw list with its boards as a map
BoardsAsMap(l) ==
    IF IsObj(l) /\ Has(l, K_boards) THEN OSet(l, K_boards, AsMap(OGet(l, K_boards))) ELSE l

\* the elements of a relation, whichever its shape
Elements(rel) ==
    IF rel.t = "list" THEN rel.v ELSE IF rel.t = "obj" THEN OValues(rel) ELSE <<>>

\* the lists relation with the boards of every list as a map
EachBoardsAsMap(rel) ==
    IF rel.t = "list" THEN JList([i \in 1..Len(rel.v) |-> BoardsAsMap(rel.v[i])])
    ELSE IF rel.t = "obj"
    THEN JObj([i \in 1..Len(rel.v) |-> [k |-> rel.v[i].k, v |-> BoardsAsMap(rel.v[i].v)]])
    ELSE rel

\* d with the relation under k, if it has one, replaced
Reshaped(d, k, rel) == IF Has(d, k) THEN OSet(d, k, rel) ELSE d

\* the raw record with every relation given as a map
AllAsMaps(d) ==
    Reshaped(Reshaped(Reshaped(d, K_lists, AsMap(EachBoardsAsMap(OGet(d, K_lists)))),
                      K_customers, AsMap(OGet(d, K_customers))),
             K_contacts, AsMap(OGet(d, K_contacts)))

\* the relations of the raw record that are arrays
Relations(d) ==
    {OGet(d, K_lists), OGet(d, K_customers), OGet(d, K_contacts)}
    \cup {OGet(Elements(OGet(d, K_lists))[i], K_boards) :
            i \in {j \in 1..Len(Elements(OGet(d, K_lists))) : IsObj(Elements(OGet(d, K_lists))[j])}}

SameOutcome(r, m) == r.st = m.st /\ r.ticket = m.ticket

\* C14 as stated: when every array-shaped relation of the raw record is an
\* array of objects carrying an id field, the Ticket is the one the same record
\* gives with those relations as maps keyed by the same ids.
C14_ShapeInvariance ==
    (Called /\ IsObj(given) /\ \A rel \in Relations(given) : CarriesIds(rel))
        => SameOutcome(results[1], model_validate(AllAsMaps(given)))

\* C14, amended: the same, for elements whose id is a non-empty string or a
\* number other than 0.
C14_ShapeInvarianceForUsableIds ==
    (Called /\ IsObj(given) /\ \A rel \in Relations(given) : CarriesUsableIds(rel))
        => SameOutcome(results[1], model_validate(AllAsMaps(given)))

\* a Ticket came out of lists given as an array whose first list has its boards
\* as an array, and of customers given as an array
C14_Witness ==
    /\ Called
    /\ results[1].st = "ok"
    /\ \A rel \in Relations(given) : CarriesUsableIds(rel)
    /\ OGet(given, K_lists).t = "list"
    /\ OGet(given, K_customers).t = "list"
    /\ results[1].ticket.customer.some
    /\ \E k \in DOMAIN results[1].ticket.lists.val :
          results[1].ticket.lists.val[k].boards.some

\* the container is an empty array, an empty map, None, or not given (d.get
\* gives None for a key that is not given)
IsEmptyContainer(rel) == rel.t = "none" \/ rel = JList(<<>>) \/ rel = JObj(<<>>)

\* a normalized relation is None or a map that is not empty
NoneOrNonEmpty(opt) == opt.some => DOMAIN opt.val # {}

\* the raw lists that are the only one to carry the id k
RawListsWithId(d, k) ==
    {i \in 1..Len(Elements(OGet(d, K_lists))) :
        /\ IsObj(Elements(OGet(d, K_lists))[i])
        /\ OGet(Elements(OGet(d, K_lists))[i], K_id) = JStr(k)}

\* C15: lists, and boards inside each list, given as an empty array, an empty
\* map, None or not at all are None in the Ticket, and a relation of the Ticket
\* is None or a map that is not empty.
C15_AbsenceNormalization ==
    (Called /\ results[1].st = "ok") =>
        /\ IsEmptyContainer(OGet(given, K_lists)) => ~results[1].ticket.lists.some
        /\ NoneOrNonEmpty(results[1].ticket.lists)
        /\ results[1].ticket.lists.some =>
              \A k \in DOMAIN results[1].ticket.lists.val :
                 /\ NoneOrNonEmpty(results[1].ticket.lists.val[k].boards)
                 /\ \A i \in RawListsWithId(given, k) :
                       (/\ Cardinality(RawListsWithId(given, k)) = 1
                        /\ IsEmptyContainer(OGet(Elements(OGet(given, K_lists))[i], K_boards)))
                           => ~results[1].ticket.lists.val[k].boards.some

\* a Ticket came out of lists whose first list has an empty array of boards
C15_Witness ==
    /\ Called
    /\ results[1].st = "ok"
    /\ results[1].ticket.lists.some
    /\ \E i \in RawListsWithId(given, <<"1">>) :
          /\ Has(Elements(OGet(given, K_lists))[i], K_boards)
          /\ OGet(Elements(OGet(given, K_lists))[i], K_boards) = JList(<<>>)
    /\ ~results[1].ticket.lists.val[<<"1">>].boards.some

\* a Ticket came out of lists given as an empty map
C15_WitnessEmptyMap ==
    /\ Called
    /\ results[1].st = "ok"
    /\ Has(given, K_lists)
    /\ OGet(given, K_lists) = JObj(<<>>)
    /\ ~results[1].ticket.lists.some

\* the three fields an element of a relation is keyed by, in priority order
KeyFields(rel_key) == <<K_id, rel_key, K_slug>>

\* the fields of the element e that yield a key: given and not None
Yielding(e, rel_key) ==
    {n \in 1..3 : IsObj(e) /\ OGet(e, KeyFields(rel_key)[n]).t # "none"}

\* ... given and truthy: a non-empty string or a number other than 0; when none
\* is, the slug if it is given and not None (the last operand of `or`)
YieldingTruthy(e, rel_key) ==
    {n \in 1..3 : /\ IsObj(e)
                  /\ \/ RTruthy(OGet(e, KeyFields(rel_key)[n]))
                     \/ /\ n = 3
                        /\ OGet(e, K_slug).t # "none"
                        /\ \A m \in 1..2 : ~RTruthy(OGet(e, KeyFields(rel_key)[m]))}

\* the key of e: the text of the first field of the set ns
KeyOf(e, rel_key, ns) == RStr(OGet(e, KeyFields(rel_key)[Least(ns)]))

\* C16 as stated, for one array items and the map out made of it: every element
\* one of whose three fields yields a key is in the map under the first of
\* them, and the map holds nothing else.
KeyedAsStated(items, out, rel_key) ==
    /\ \A i \in 1..Len(items) :
          Yielding(items[i], rel_key) # {} =>
              /\ Has(out, KeyOf(items[i], rel_key, Yielding(items[i], rel_key)))
              /\ OGet(out, KeyOf(items[i], rel_key, Yielding(items[i], rel_key))) = items[i]
    /\ \A n \in 1..Len(out.v) :
          \E i \in 1..Len(items) :
              /\ Yielding(items[i], rel_key) # {}
              /\ out.v[n] = [k |-> KeyOf(items[i], rel_key, Yielding(items[i], rel_key)),
                             v |-> items[i]]

\* C16 amended: the key is the first truthy field, and of the elements with
\* the same key the last one is in the map.
KeyedAsCoded(items, out, rel_key) ==
    /\ \A i \in 1..Len(items) :
          (/\ YieldingTruthy(items[i], rel_key) # {}
           /\ \A j \in (i + 1)..Len(items) :
                 YieldingTruthy(items[j], rel_key) # {} =>
                     KeyOf(items[j], rel_key, YieldingTruthy(items[j], rel_key))
                        # KeyOf(items[i], rel_key, YieldingTruthy(items[i], rel_key)))
            => /\ Has(out, KeyOf(items[i], rel_key, YieldingTruthy(items[i], rel_key)))
               /\ OGet(out, KeyOf(items[i], rel_key, YieldingTruthy(items[i], rel_key))) = items[i]
    /\ \A n \in 1..Len(out.v) :
          \E i \in 1..Len(items) :
              /\ YieldingTruthy(items[i], rel_key) # {}
              /\ out.v[n] = [k |-> KeyOf(items[i], rel_key, YieldingTruthy(items[i], rel_key)),
                             v |-> items[i]]

\* the lists of the normalized relation whose boards were given as an array
WithBoardsArray(r) ==
    {i \in 1..Len(r.lists.v) :
        IsObj(r.lists.v[i].v) /\ OGet(r.lists.v[i].v, K_boards).t = "list"}

\* C16: a relation given as a sequence is keyed element by element by id, else
\* list_id or board_id, else slug; only an element none of which yields a key
\* is skipped, every other one is in the map under its key.
C16_KeyedByIdElseRelIdElseSlug ==
    (Called /\ IsObj(given)) =>
        /\ OGet(given, K_lists).t = "list" =>
              KeyedAsStated(OGet(given, K_lists).v, results[1].lists, K_list_id)
        /\ \A i \in WithBoardsArray(results[1]) :
              KeyedAsStated(OGet(results[1].lists.v[i].v, K_boards).v,
                            results[1].boards[i], K_board_id)

\* C16, amended: the key is the first of the three that is truthy, and a later
\* element replaces an earlier one with the same key.
C16_KeyedByFirstTruthyLastWins ==
    (Called /\ IsObj(given)) =>
        /\ OGet(given, K_lists).t = "list" =>
              KeyedAsCoded(OGet(given, K_lists).v, results[1].lists, K_list_id)
        /\ \A i \in WithBoardsArray(results[1]) :
              KeyedAsCoded(OGet(results[1].lists.v[i].v, K_boards).v,
                           results[1].boards[i], K_board_id)

\* lists given as an array were keyed by their ids, and so were the boards of
\* one of them, given as an array, one of which has an id and a board_id
C16_Witness ==
    /\ Called
    /\ OGet(given, K_lists).t = "list"
    /\ Has(results[1].lists, <<"1">>)
    /\ Has(results[1].lists, <<"2">>)
    /\ \E i \in WithBoardsArray(results[1]) :
          Has(results[1].boards[i], <<"9">>) /\ Has(results[1].boards[i], <<"7">>)

\* lists given as an array were keyed, one of them by its slug
C16_WitnessSlug ==
    /\ Called
    /\ OGet(given, K_lists).t = "list"
    /\ Has(results[1].lists, <<"g">>)
    /\ Has(results[1].lists, <<"2">>)

\* the element carries the default flag: the string "1" or the boolean true
Flagged(e) == IsObj(e) /\ OGet(e, K_default) \in {JStr(<<"1">>), JBool(TRUE)}

\* the place of the element to select: the first flagged one, else the first
Selected(items) ==
    IF \E i \in 1..Len(items) : Flagged(items[i])
    THEN Least({i \in 1..Len(items) : Flagged(items[i])})
    ELSE 1

\* the derived field when the element e is the selected one: its name, else the
\* full<entity> text of the record, else what the record gave itself: an empty
\* string or nothing
DerivedFrom(e, full, own) ==
    IF RTruthy(NameOf(e)) THEN SomeVal(NameOf(e).v)
    ELSE IF full.t = "str" THEN SomeVal(full.v)
    ELSE IF own.t = "str" THEN SomeVal(own.v)
    ELSE NoneVal

\* the record gives no name of its own under single and a relation with
\* elements under many
Derives(d, single, many) ==
    /\ IsObj(d)
    /\ ~RTruthy(OGet(d, single))
    /\ Elements(OGet(d, many)) # <<>>

\* C17: from customers or contacts with several elements the one flagged
\* default (true or "1") is selected wherever it stands, and the first element
\* when none is flagged: the derived customer or contact is the one this
\* element gives.
C17_DefaultElseFirst ==
    (Called /\ results[1].st = "ok") =>
        /\ Derives(given, K_customer, K_customers) =>
              results[1].ticket.customer =
                 DerivedFrom(Elements(OGet(given, K_customers))
                                [Selected(Elements(OGet(given, K_customers)))],
                             OGet(given, K_fullcustomer), OGet(given, K_customer))
        /\ Derives(given, K_contact, K_contacts) =>
              results[1].ticket.contact =
                 DerivedFrom(Elements(OGet(given, K_contacts))
                                [Selected(Elements(OGet(given, K_contacts)))],
                             OGet(given, K_fullcontact), OGet(given, K_contact))

\* the flagged element stood second in contacts given as a map and gave the
\* contact of the Ticket
C17_Witness ==
    /\ Called
    /\ results[1].st = "ok"
    /\ Derives(given, K_contact, K_contacts)
    /\ OGet(given, K_contacts).t = "obj"
    /\ Selected(Elements(OGet(given, K_contacts))) = 2
    /\ results[1].ticket.contact = SomeVal(Bob)

\* no element flagged: the first one gave the customer
C17_WitnessFirst ==
    /\ Called
    /\ results[1].st = "ok"
    /\ Derives(given, K_customer, K_customers)
    /\ Len(Elements(OGet(given, K_customers))) = 2
    /\ \A i \in 1..2 : ~Flagged(Elements(OGet(given, K_customers))[i])
    /\ results[1].ticket.customer = SomeVal(Lee)

\* the name fields of the contract, in order
StatedNameKeys == <<K_fulltitle, K_title, K_fullname>>

\* the name fields the element is read by, in order
ReadNameKeys ==
    <<K_fulltitle, K_title, K_fullname, K_contacttitle, K_fullcustomer, K_fullcontact>>

NonEmptyText(j) == j.t = "str" /\ j.v # <<>>

NonBlankText(j) == j.t = "str" /\ \E i \in 1..Len(j.v) : j.v[i] \notin WS

\* first name and last name joined by one space, absent parts left out
FirstLast(e) ==
    IF NonEmptyText(OGet(e, K_firstname)) /\ NonEmptyText(OGet(e, K_lastname))
    THEN SomeVal(OGet(e, K_firstname).v \o <<" ">> \o OGet(e, K_lastname).v)
    ELSE IF NonEmptyText(OGet(e, K_firstname)) THEN SomeVal(OGet(e, K_firstname).v)
    ELSE IF NonEmptyText(OGet(e, K_lastname)) THEN SomeVal(OGet(e, K_lastname).v)
    ELSE NoneVal

\* the display name of the element e as the contract states it
StatedName(e) ==
    IF ~IsObj(e) THEN NoneVal
    ELSE IF \E n \in 1..Len(StatedNameKeys) : NonEmptyText(OGet(e, StatedNameKeys[n]))
    THEN SomeVal(OGet(e, StatedNameKeys[Least({n \in 1..Len(StatedNameKeys) :
                                    NonEmptyText(OGet(e, StatedNameKeys[n]))})]).v)
    ELSE FirstLast(e)

\* the display name of the element e with the six fields and the test for a
\* text that is not blank
ReadName(e) ==
    IF ~IsObj(e) THEN NoneVal
    ELSE IF \E n \in 1..Len(ReadNameKeys) : NonBlankText(OGet(e, ReadNameKeys[n]))
    THEN SomeVal(OGet(e, ReadNameKeys[Least({n \in 1..Len(ReadNameKeys) :
                                  NonBlankText(OGet(e, ReadNameKeys[n]))})]).v)
    ELSE FirstLast(e)

\* the display name, else the full<entity> text of the record, else the empty
\* string the record gave itself, else None
ElseRecord(name, full, own) ==
    IF name.some THEN name
    ELSE IF full.t = "str" THEN SomeVal(full.v)
    ELSE IF own.t = "str" THEN SomeVal(own.v)
    ELSE NoneVal

\* the element pick_name selects from the relation under many
SelectedOf(d, many) == Elements(OGet(d, many))[Selected(Elements(OGet(d, many)))]

\* C18 as stated: the derived customer or contact is the first non-empty string
\* among fulltitle, title and fullname of the selected element, else its first
\* and last name joined by one space, else None.
C18_DisplayName ==
    (Called /\ results[1].st = "ok") =>
        /\ Derives(given, K_customer, K_customers) =>
              results[1].ticket.customer = StatedName(SelectedOf(given, K_customers))
        /\ Derives(given, K_contact, K_contacts) =>
              results[1].ticket.contact = StatedName(SelectedOf(given, K_contacts))

\* C18, amended: the fields read are fulltitle, title, fullname, contacttitle,
\* fullcustomer, fullcontact, a blank string does not count, and when the
\* element gives no name the field is the fullcustomer or fullcontact text of
\* the record, else what the record gave, else None.
C18_DisplayNameOrRecordFallback ==
    (Called /\ results[1].st = "ok") =>
        /\ Derives(given, K_customer, K_customers) =>
              results[1].ticket.customer =
                 ElseRecord(ReadName(SelectedOf(given, K_customers)),
                            OGet(given, K_fullcustomer), OGet(given, K_customer))
        /\ Derives(given, K_contact, K_contacts) =>
              results[1].ticket.contact =
                 ElseRecord(ReadName(SelectedOf(given, K_contacts)),
                            OGet(given, K_fullcontact), OGet(given, K_contact))

\* the selected element had a title and a fulltitle, and the fulltitle became
\* the customer
C18_Witness ==
    /\ Called
    /\ results[1].st = "ok"
    /\ Derives(given, K_customer, K_customers)
    /\ SelectedOf(given, K_customers) = EntBobDefault
    /\ results[1].ticket.customer = SomeVal(Bob)

\* first and last name were joined
C18_WitnessJoined ==
    /\ Called
    /\ results[1].st = "ok"
    /\ Derives(given, K_contact, K_contacts)
    /\ SelectedOf(given, K_contacts) = EntDiLeeTrue
    /\ results[1].ticket.contact = SomeVal(Di \o <<" ">> \o Lee)

\* the selected element gave no name and the record no fullcustomer
C18_WitnessNone ==
    /\ Called
    /\ results[1].st = "ok"
    /\ Derives(given, K_customer, K_customers)
    /\ SelectedOf(given, K_customers) = EntDefaultNameless
    /\ ~results[1].ticket.customer.some

\* C19: Ticket.model_validate leaves the raw record it is given as it was: the
\* same keys with the same values.
C19_RawRecordUnchanged ==
    Called => raw = given

\* C20: two calls of Ticket.model_validate in a row on the same raw object
\* give equal Tickets, or fail alike.
C20_Idempotent ==
    Len(results) = 2 => SameOutcome(results[1], results[2])

\* the second call gave a Ticket with a derived customer, on a raw object the
\* first call had written the customer into
C20_Witness ==
    /\ Len(results) = 2
    /\ results[2].st = "ok"
    /\ results[2].ticket.customer = SomeVal(Bob)
    /\ ~Has(given, K_customer)
    /\ Has(raw, K_customer)

\* ------------------------------------------------------------ parse_dt_loose

\* the date and the time exist
ValidStamp(d, t) == d[3] <= DaysInMonth(d[1], d[2]) /\ t[1] <= 23

\* the instant a stamp written from d and t in the form f names
Named_dt(d, t, f) ==
    Instant(DaysFromCivil(d[1], d[2], d[3]), t[1] * 3600 + t[2] * 60 + t[3] - 60 * f.offset)

\* the forms the contract accepts: "YYYY-MM-DD HH:MM:SS", bare or with blanks
\* around it, and ISO-8601 with Z, with a numeric offset and without any offset
StatedForms == {"plain", "padded", "iso_z", "iso_plus", "iso_minus", "iso_naive"}

\* ... and the forms the three formats of line 92 match
ReadForms == {"plain", "padded", "iso_z", "iso_plus", "iso_minus"}

\* parse_dt_loose returned the instant for every stamp in one of the forms and
\* None for every other stamp
ParsesForms(forms) ==
    instant.st = "returned" =>
        /\ \A d \in Dates, t \in Times, f \in Forms :
              (stamp = Written(d, t, f) /\ ValidStamp(d, t) /\ f.name \in forms)
                  => (instant.some /\ instant.val = Named_dt(d, t, f))
        /\ (\A d \in Dates, t \in Times, f \in Forms :
               ~(stamp = Written(d, t, f) /\ ValidStamp(d, t) /\ f.name \in forms))
              => ~instant.some

\* C21: parse_dt_loose accepts "YYYY-MM-DD HH:MM:SS" as UTC and ISO-8601 with
\* and without an explicit offset, and returns the UTC instant; for an empty or
\* unparseable text it returns None; it never raises.
C21_AcceptsIsoWithAndWithoutOffset ==
    ParsesForms(StatedForms)

\* ------------------------------------------------------------ test/main.py: main_loop

\* C22: the persisted watermark only advances: persist_watermark never stores
\* a value smaller than one it stored before, on either branch of main_loop.
C22_WatermarkMonotonic ==
    \A i, j \in 1..Len(persisted) : i < j => persisted[i] <= persisted[j]

\* ------------------------------------------------------------ the cycles of main

PassedIds == {passed[i] : i \in 1..Len(passed)}

\* C23: a ticket id is passed to process_issue in at most one cycle: no ticket
\* passed in this cycle was passed in an earlier one, whatever the earlier
\* cycles' endings and fetches were.
C23_PassedInAtMostOneCycle ==
    PassedIds \cap earlier = {}

\* the step that ends the loop of a cycle (lines 853-856)
EndsLoop == pc = "loop" /\ pc' = "cycle_end"

\* C24: the blob changes only at the end of a cycle that reached the save with
\* a non-empty fetch and whose upload succeeded, and then it holds exactly the
\* ids of that fetch, the tickets process_issue skipped included; an empty
\* fetch, a failed upload, an invalid MODE and an exception leave it as it was.
C24_SavedStateIsTheFetch ==
    [][IF EndsLoop /\ issues # <<>> /\ ending' = "saved"
       THEN blob' = Ids(issues)
       ELSE blob' = blob]_vars

C24_Witness ==
    /\ pc = "cycle_end"
    /\ ending = "saved"
    /\ cycle = 2
    /\ blob = Ids(issues)
    /\ earlier \ blob # {}
    /\ \E i \in 1..Len(issues) : ~board_found(issues[i])

\* C24 as stated: every cycle that ends without an exception leaves the ids of
\* its fetch in the blob, or the blob as it was when the fetch was empty.
C24_StoredEqualsFetch ==
    [][(pc # "cycle_end" /\ pc' = "cycle_end" /\ ending' # "exception")
       => blob' = IF issues' = <<>> THEN blob ELSE Ids(issues')]_vars

\* ------------------------------------------------------------ process_issue

\* the Teams post that answers the card of the last notification
CardPost == posts[1]

\* C26: notify_teams_adaptive falls back to the plain-text post whenever the
\* card post fails, on a non-200 answer and on a connection error alike.
C26_FallbackOnEveryCardFailure ==
    (pc = "comment" /\ posts # <<>> /\ CardPost.kind = "card" /\ CardPost.status # "200") =>
        /\ Len(posts) = 2
        /\ posts[2].kind = "text"

\* the order of the effects of process_issue for one ticket
EffectOrder == <<"ai", "notify", "comment">>

\* C27: for a ticket on the service board the effects come in the order AI
\* call, Teams notification attempt, Agidesk comment; the comment is written
\* only in production and only after the notification attempt; whatever the
\* notification did (posted, failed, raised), the comment of a production run
\* follows it; and a failing add_comment ends the ticket without an exception.
C27_EffectOrder ==
    /\ effects = SubSeq(EffectOrder, 1, Len(effects))
    /\ Len(effects) = 3 => MODE = "production"
    /\ comments # <<>> => (Len(effects) = 3 /\ MODE = "production" /\ comments[1].id = issue.id)
    /\ (MODE = "production" /\ Len(effects) >= 2 /\ pc # "comment") =>
            (Len(effects) = 3 /\ Len(comments) = 1)
    /\ (comments # <<>> /\ ~comments[1].ok) => (pc \in {"loop", "cycle_end"} /\ ending # "exception")

\* a production run whose notification raised or failed and whose add_comment
\* failed, after which the loop goes on
C27_Witness ==
    /\ MODE = "production"
    /\ pc = "loop"
    /\ effects = EffectOrder
    /\ posts = <<>>
    /\ comments # <<>>
    /\ ~comments[1].ok
    /\ todo # <<>>

\* C29: a ticket none of whose lists holds board "9", or that has no lists, is
\* returned from process_issue at once: no generation request, no Teams post
\* and no comment is made for it, and the loop goes on.
C29_OffBoardTicketIsSkipped ==
    (issue # NoIssue /\ \A l \in DOMAIN issue.lists : "9" \notin issue.lists[l]) =>
        /\ pc \in {"loop", "cycle_end"}
        /\ effects = <<>>
        /\ reqlog = <<>>
        /\ call = NoCall
        /\ posts = <<>>
        /\ comments = <<>>

\* the ticket without lists, skipped after a ticket that was processed
C29_Witness ==
    /\ pc = "loop"
    /\ issue.id = "104"
    /\ passed = <<"102", "104">>
    /\ effects = <<>>

\* C30: when MODE is neither "development" nor "production", no step of a
\* cycle passes a ticket to process_issue, none has an effect, and the stored
\* ids stay as they were.
C30_InvalidModeDoesNothing ==
    [][MODE \notin {"development", "production"} =>
        /\ passed' = <<>>
        /\ effects' = <<>>
        /\ blob' = blob]_vars

\* a second cycle in an invalid mode that ended with unseen tickets fetched
C30_Witness ==
    /\ MODE = "staging"
    /\ cycle = 2
    /\ pc = "cycle_end"
    /\ ending = "bad_mode"
    /\ new_tickets # <<>>
    /\ passed = <<>>
    /\ blob = StoredAtStart

\* ------------------------------------------------------------ the cascade of requests

\* C25: one call of call_openai_simplified issues at most four generation
\* requests and then ends, by returning or by raising: no path through the
\* cascade goes on requesting.
C25_AtMostFourRequestsThenEnds ==
    /\ [](Len(reqlog) <= 4)
    /\ <>[](pc = "ai_done" /\ call.st \in {"returned", "raised"})

\* a call that ended after its fourth request
C25_Witness ==
    /\ pc = "ai_done"
    /\ Len(reqlog) = 4
    /\ call.st \in {"returned", "raised"}

\* ------------------------------------------------------------ search_tickets

\* C28: search_tickets never raises on a request, JSON-decode or
\* record-validation failure and is all-or-nothing: it returns one Ticket per
\* raw record of the response, in response order, or the empty list.
C28_AllOrNothingNeverRaises ==
    (pc = "searched" /\ response.log_ok) =>
        /\ searched.st = "returned"
        /\ \/ searched.tickets = <<>>
           \/ /\ Len(searched.tickets) = Len(RecordsOf(response.json))
              /\ \A i \in 1..Len(searched.tickets) :
                    searched.tickets[i] = model_validate(RecordsOf(response.json)[i]).ticket
====
